---- MODULE Spec2Model ----
(***************************************************************************)
(* A model of the ai-client library: one conversational interface (ask,    *)
(* askJson, stream) over the OpenAI, Groq, Gemini, Claude and Mistral      *)
(* providers.                                                              *)
(*                                                                         *)
(* Strings are sequences of tokens, so that concatenation is \o, the empty *)
(* string is <<>> (falsy in JavaScript) and the markers the code looks for *)
(* ("<think>", "</think>", white space) are single tokens.                 *)
(* A JavaScript value that may be undefined, null or a string is a record  *)
(* [tag, s].                                                               *)
(***************************************************************************)
EXTENDS Integers, Sequences, FiniteSets, TLC

VARIABLES
  client,    \* the client's construction parameters (provider, model, instructions)
  pc,        \* position of the one call in flight
  op,        \* "ask", "askJson" or "stream"
  args,      \* the caller's arguments: input and askParameters
  request,   \* the provider request the call built
  response,  \* what the provider call produced (resolved value or raised value)
  result,    \* what the call gave back to its caller
  steps,     \* what the call did after the provider answered (parse, validate)
  pos,       \* stream: number of provider deltas consumed so far
  yielded,   \* stream: fragments delivered to the consumer, in order
  status,    \* stream: the generator is "created", "running", "suspended", "done" or "thrown"
  inner,     \* stream: fragments of the latest delta delivered so far
  creates    \* number of times the call invoked the provider's create primitive

vars == <<client, pc, op, args, request, response, result, steps, pos, yielded, status, inner,
          creates>>

----------------------------------------------------------------------------
(* Bounds of the model *)

\* longest conversation history a caller passes in askParameters.messages
MaxMsgs == 2

\* longest text (in tokens) a provider answers with
MaxLen == 3

\* most deltas a provider stream delivers
MaxDeltas == 3

\* most content chunks in one Mistral message or delta
MaxChunks == 2

\* most calls under way at once on one client
MaxCalls == 2

----------------------------------------------------------------------------
(* JavaScript values *)

Undefined == [tag |-> "undefined", s |-> <<>>]
Null      == [tag |-> "null", s |-> <<>>]
Str(s)    == [tag |-> "string", s |-> s]

\* a ?? b
Coalesce(a, b) == IF a.tag \in {"undefined", "null"} THEN b ELSE a

\* truthiness of an optional string: undefined, null and "" are falsy
Truthy(v) == v.tag = "string" /\ v.s # <<>>

RECURSIVE SeqMap(_, _)
\* array.map(f)
SeqMap(f(_), seq) ==
  IF seq = <<>> THEN <<>> ELSE <<f(Head(seq))>> \o SeqMap(f, Tail(seq))

RECURSIVE SeqFilter(_, _)
\* array.filter(p)
SeqFilter(p(_), seq) ==
  IF seq = <<>> THEN <<>>
  ELSE (IF p(Head(seq)) THEN <<Head(seq)>> ELSE <<>>) \o SeqFilter(p, Tail(seq))

\* array.findIndex(p): the first index (from 1) satisfying p, 0 when there is none
FindIndex(p(_), seq) ==
  IF \E i \in 1..Len(seq) : p(seq[i])
  THEN CHOOSE i \in 1..Len(seq) : p(seq[i]) /\ \A j \in 1..(i - 1) : ~p(seq[j])
  ELSE 0

\* array.some(p)
Some(p(_), seq) == \E i \in 1..Len(seq) : p(seq[i])

----------------------------------------------------------------------------
(* Providers and models *)

openAiModels == {"gpt-4.1", "gpt-4.1-mini", "gpt-4.1-nano", "gpt-5", "gpt-5-mini",
                 "gpt-5-nano", "o3", "o3-mini", "o4-mini"}

groqModels == {"llama-3.3-70b-versatile", "llama-3.1-8b-instant", "openai/gpt-oss-20b",
               "openai/gpt-oss-120b", "moonshotai/kimi-k2-instruct",
               "meta-llama/llama-4-maverick-17b-128e-instruct",
               "meta-llama/llama-4-scout-17b-16e-instruct",
               "deepseek-r1-distill-llama-70b", "qwen/qwen3-32b"}

modelsSupportingStructuredOutputs ==
  {"openai/gpt-oss-20b", "openai/gpt-oss-120b", "moonshotai/kimi-k2-instruct",
   "meta-llama/llama-4-maverick-17b-128e-instruct",
   "meta-llama/llama-4-scout-17b-16e-instruct"}

geminiModels == {"gemini-2.5-pro", "gemini-2.5-flash", "gemini-2.5-flash-lite"}

claudeModels == {"claude-sonnet-4-0", "claude-opus-4-1", "claude-3-5-haiku-latest"}

mistralModels == {"magistral-medium-latest", "magistral-small-latest",
                  "mistral-medium-latest", "mistral-large-latest", "ministral-3b-latest",
                  "ministral-8b-latest", "open-mistral-nemo", "mistral-small-latest",
                  "devstral-small-latest", "devstral-medium-latest", "mistral-saba-latest"}

\* AiClientProvider, by the tag createAiClient switches on
Providers == {"openai", "groq", "google", "claude", "mistral"}

ModelsOf(provider) ==
  CASE provider = "openai"  -> openAiModels
    [] provider = "groq"    -> groqModels
    [] provider = "google"  -> geminiModels
    [] provider = "claude"  -> claudeModels
    [] provider = "mistral" -> mistralModels

----------------------------------------------------------------------------
(* Messages *)

Roles == {"system", "user", "assistant", "tool", "function"}

Msg(role, content) == [role |-> role, content |-> content]

\* the text of the i-th message of a conversation: distinct per position, so
\* that a reordering or a swap of contents is visible
MsgText(i) == <<"m" \o ToString(i)>>

\* the caller's input
InputText == <<"input">>

Separator == <<"\n\n">>

\* JSON.stringify(toJsonSchema(schema), null, 2)
SchemaJson == <<"<json-schema>">>

isSystem(msg) == msg.role = "system"

----------------------------------------------------------------------------
(* Message Normalizer: one prepareMessages per provider *)

\* downgradeToUser with the tool role forgotten
downgradeFunctionOnly(msg) ==
  IF msg.role = "function"
  THEN Msg("user", msg.content)
  ELSE Msg(msg.role, msg.content)

\* role mapping of the OpenAI and Groq clients: function and tool become user
downgradeToUser(msg) ==
  IF msg.role \in {"function", "tool"}
  THEN Msg("user", msg.content)
  ELSE Msg(msg.role, msg.content)

\* prepareMessagesOpenAi without the synthesis of a system message
prepareMessagesNoSynthesis(messages, systemPrompt) ==
  SeqMap(downgradeToUser, messages)

\* OpenAI prepareMessages(messages, systemPrompt)
prepareMessagesOpenAi(messages, systemPrompt) ==
  LET preparedMessages ==
        IF Truthy(systemPrompt) /\ ~Some(isSystem, messages)
        THEN <<Msg("system", systemPrompt.s)>> \o messages
        ELSE messages
  IN  SeqMap(downgradeToUser, preparedMessages)

\* Groq prepareMessages(askParameters, systemPrompt); messages is askParameters.messages
prepareMessagesGroq(messages, systemPrompt) ==
  LET appendPrompt(msg) ==
        IF msg.role = "system"
        THEN Msg(msg.role, msg.content \o Separator \o systemPrompt.s)
        ELSE msg
      preparedMessages ==
        IF Truthy(systemPrompt)
        THEN IF ~Some(isSystem, messages)
             THEN <<Msg("system", systemPrompt.s)>> \o messages
             ELSE SeqMap(appendPrompt, messages)
        ELSE messages
  IN  SeqMap(downgradeToUser, preparedMessages)

\* role mapping of the Mistral client: function becomes tool, the rest is kept
mapRoleMistral(msg) ==
  IF msg.role = "function"
  THEN Msg("tool", msg.content)
  ELSE Msg(msg.role, msg.content)

\* Mistral prepareMessages(messages, systemPrompt)
prepareMessagesMistral(messages, systemPrompt) ==
  LET preparedMessages ==
        IF Truthy(systemPrompt) /\ ~Some(isSystem, messages)
        THEN <<Msg("system", systemPrompt.s)>> \o messages
        ELSE messages
  IN  SeqMap(mapRoleMistral, preparedMessages)

\* role mapping of the Claude client: function, tool and system become user
mapRoleClaude(msg) ==
  IF msg.role \in {"function", "tool", "system"}
  THEN Msg("user", msg.content)
  ELSE Msg(msg.role, msg.content)

\* Claude prepareMessages(messages, systemPrompt): {system, messages}
prepareMessagesClaude(messages, systemPrompt) ==
  LET systemIndex == FindIndex(isSystem, messages)
      systemMessage ==
        IF systemIndex # 0 THEN Str(messages[systemIndex].content)
        ELSE IF Truthy(systemPrompt) THEN systemPrompt
        ELSE Undefined
      preparedMessages ==
        IF systemIndex # 0
        THEN [i \in 1..(Len(messages) - 1) |->
                IF i < systemIndex THEN messages[i] ELSE messages[i + 1]]
        ELSE messages
  IN  [system |-> systemMessage, messages |-> SeqMap(mapRoleClaude, preparedMessages)]

\* role mapping of the Gemini client: assistant becomes model, the rest user
mapRoleGemini(msg) ==
  LET role == IF msg.role = "assistant" THEN "model" ELSE "user"
  IN  IF msg.role \in {"function", "tool"}
      THEN Msg("user", msg.content)
      ELSE Msg(role, msg.content)

isNotSystem(msg) == msg.role # "system"

\* Gemini prepareMessages(messages): the contents, each {role, parts: [{text}]}
prepareMessagesGemini(messages) ==
  SeqMap(mapRoleGemini, SeqFilter(isNotSystem, messages))

\* Gemini extractSystemPrompt(messages, systemPrompt)
extractSystemPrompt(messages, systemPrompt) ==
  IF Truthy(systemPrompt) THEN systemPrompt
  ELSE LET systemIndex == FindIndex(isSystem, messages)
       IN  IF systemIndex # 0 THEN Str(messages[systemIndex].content) ELSE Undefined

\* the systemInstruction field of Gemini's createGenerationConfig: set when truthy
systemInstructionGemini(messages, systemPrompt) ==
  LET systemInstruction == extractSystemPrompt(messages, systemPrompt)
  IN  IF Truthy(systemInstruction) THEN systemInstruction ELSE Undefined

----------------------------------------------------------------------------
(* Request building: what ask, askJson and stream do before the provider call *)

\* askParameters.messages, which the caller may leave out
NoMessages      == [tag |-> "undefined", list |-> <<>>]
Messages(list)  == [tag |-> "array", list |-> list]

\* askParameters.messages ?? []
messagesOrEmpty(messages) == IF messages.tag = "undefined" THEN <<>> ELSE messages.list

\* updatedParameters.messages: [...(askParameters.messages ?? []), {role: "user", content}]
updatedMessages(params, content) ==
  messagesOrEmpty(params.messages) \o <<Msg("user", content)>>

\* Mistral askJson: the input followed by the schema and the JSON-only directive
promptWithSchema(input) ==
  input \o <<"\n\n", "You must respond with valid JSON that matches this schema:", "\n">>
        \o SchemaJson
        \o <<"\n\n", "Respond ONLY with the JSON object, no additional text or markdown formatting.">>

\* Groq askJson without structured outputs: the instructions followed by the schema
jsonInstructions == <<"Answer with JSON only. Follow this exact schema:", "\n\n">> \o SchemaJson

combinedInstructions(instructions) ==
  IF Truthy(instructions)
  THEN Str(instructions.s \o Separator \o jsonInstructions)
  ELSE Str(jsonInstructions)

\* a provider request: the message list and the system side-channel field
\* (system for Claude, config.systemInstruction for Gemini, absent elsewhere)
Request(messages, system) == [messages |-> messages, system |-> system]

NoRequest == Request(<<>>, Undefined)

requestOpenAi(c, o, params) ==
  Request(prepareMessagesOpenAi(updatedMessages(params, params.input),
                                Coalesce(params.instructions, c.instructions)),
          Undefined)

requestGroq(c, o, params) ==
  LET updated      == updatedMessages(params, params.input)
      instructions == Coalesce(params.instructions, c.instructions)
  IN  IF o = "askJson" /\ c.model \notin modelsSupportingStructuredOutputs
      THEN Request(prepareMessagesGroq(updated, combinedInstructions(instructions)),
                   Undefined)
      ELSE Request(prepareMessagesGroq(updated, instructions), Undefined)

requestMistral(c, o, params) ==
  LET content == IF o = "askJson" THEN promptWithSchema(params.input) ELSE params.input
  IN  Request(prepareMessagesMistral(updatedMessages(params, content),
                                     Coalesce(params.instructions, c.instructions)),
              Undefined)

requestClaude(c, o, params) ==
  LET prepared == prepareMessagesClaude(updatedMessages(params, params.input),
                                        Coalesce(params.instructions, c.instructions))
  IN  Request(prepared.messages, prepared.system)

requestGemini(c, o, params) ==
  LET updated == updatedMessages(params, params.input)
  IN  Request(prepareMessagesGemini(updated),
              systemInstructionGemini(updated,
                                      Coalesce(params.instructions, c.instructions)))

\* the request a call of operation o on client c builds from the caller's arguments
BuildRequest(c, o, params) ==
  CASE c.provider = "openai"  -> requestOpenAi(c, o, params)
    [] c.provider = "groq"    -> requestGroq(c, o, params)
    [] c.provider = "mistral" -> requestMistral(c, o, params)
    [] c.provider = "claude"  -> requestClaude(c, o, params)
    [] c.provider = "google"  -> requestGemini(c, o, params)

----------------------------------------------------------------------------
(* Inputs *)

Ops == {"ask", "askJson", "stream"}

\* the messages a caller can put at position i of the history: any role with
\* the position's text, or a system message with empty content
MessagesAt(i) == {Msg(r, MsgText(i)) : r \in Roles} \cup {Msg("system", <<>>)}

Conversations ==
  UNION {{conv \in [1..n -> UNION {MessagesAt(i) : i \in 1..n}] :
            \A i \in 1..n : conv[i] \in MessagesAt(i)} : n \in 0..MaxMsgs}

\* instructions given at construction (the client default)
DefaultInstructions == {Undefined, Str(<<"D">>)}

\* instructions given per call
CallInstructions == {Undefined, Str(<<>>), Str(<<"P">>)}

Clients ==
  {[provider |-> p, model |-> m, instructions |-> d] :
     p \in Providers, m \in UNION {ModelsOf(q) : q \in Providers}, d \in DefaultInstructions}

ValidClients == {c \in Clients : c.model \in ModelsOf(c.provider)}

AskParameters ==
  {[input |-> InputText, messages |-> m, instructions |-> i] :
     m \in {NoMessages} \cup {Messages(conv) : conv \in Conversations},
     i \in CallInstructions}

NoArgs == [input |-> <<>>, messages |-> NoMessages, instructions |-> Undefined]

----------------------------------------------------------------------------
(* Specification of request building: a client serves calls one after another *)

NoResponse == [kind |-> "none"]
NoResult   == [kind |-> "none"]

Init ==
  /\ client \in ValidClients
  /\ pc = "idle"
  /\ op = "none"
  /\ args = NoArgs
  /\ request = NoRequest
  /\ response = NoResponse
  /\ result = NoResult
  /\ steps = {}
  /\ pos = 0
  /\ yielded = <<>>
  /\ status = "none"
  /\ inner = 0
  /\ creates = 0

\* the call runs up to its provider call: the request is built
Call ==
  /\ pc = "idle"
  /\ \E o \in Ops, params \in AskParameters :
       /\ op' = o
       /\ args' = params
       /\ request' = BuildRequest(client, o, params)
  /\ pc' = "built"
  /\ UNCHANGED <<client, creates, response, result, steps, pos, yielded, status, inner>>

\* the call is over; the request is not retained
Return ==
  /\ pc = "built"
  /\ pc' = "idle"
  /\ op' = "none"
  /\ args' = NoArgs
  /\ request' = NoRequest
  /\ UNCHANGED <<client, creates, response, result, steps, pos, yielded, status, inner>>

Next == Call \/ Return

Spec == Init /\ [][Next]_vars

----------------------------------------------------------------------------
(* Vocabulary of the properties of request building *)

\* the roles each provider's message type accepts (the return type of its
\* prepareMessages; Gemini's contents carry "user" and "model")
roleSupport(provider) ==
  CASE provider = "openai"  -> {"system", "user", "assistant"}
    [] provider = "groq"    -> {"system", "user", "assistant"}
    [] provider = "mistral" -> {"system", "user", "assistant", "tool"}
    [] provider = "claude"  -> {"user", "assistant"}
    [] provider = "google"  -> {"user", "model"}

SideChannelProviders == {"claude", "google"}

\* the conversation as the caller gave it: the history, then the new input
Conversation == messagesOrEmpty(args.messages) \o <<Msg("user", args.input)>>

\* the instructions in force: per call if given, else the client default
EffectiveInstructions == Coalesce(args.instructions, client.instructions)

IsPrefix(a, b) == Len(a) <= Len(b) /\ SubSeq(b, 1, Len(a)) = a

\* the role a user or assistant message has in the provider's vocabulary
NativeRole(provider, role) ==
  IF provider = "google" /\ role = "assistant" THEN "model" ELSE role

\* out carries the tool or function message m under role target, content
\* unchanged; any other message of the conversation under its own role
CarriedAs(provider, target, m, out) ==
  IF m.role \in {"tool", "function"}
  THEN out.role = target /\ out.content = m.content
  ELSE out.role = NativeRole(provider, m.role) /\ IsPrefix(m.content, out.content)

RECURSIVE Embeds(_, _, _, _)
\* the messages of a appear in b, in a's order, each carried as CarriedAs says
Embeds(a, b, provider, target) ==
  \/ a = <<>>
  \/ /\ b # <<>>
     /\ IF CarriedAs(provider, target, Head(a), Head(b))
        THEN Embeds(Tail(a), Tail(b), provider, target)
        ELSE Embeds(a, Tail(b), provider, target)

HasToolOrFunction == \E i \in 1..Len(Conversation) : Conversation[i].role \in {"tool", "function"}

RolesAreNative ==
  \A k \in 1..Len(request.messages) : request.messages[k].role \in roleSupport(client.provider)

\* C8 as stated: with tool or function messages in the conversation, the
\* normalized list holds only roles the provider accepts, every tool or function
\* message is rewritten to user, content unchanged, position among the other
\* messages kept.
C8_AllRewrittenToUser ==
  (pc = "built" /\ HasToolOrFunction) =>
    /\ RolesAreNative
    /\ Embeds(SeqFilter(isNotSystem, Conversation), request.messages,
              client.provider, "user")

\* the role a tool or function message gets: user, except on Mistral, whose
\* message type has a tool role (function becomes tool, tool stays tool)
DowngradedRole(provider) == IF provider = "mistral" THEN "tool" ELSE "user"

\* C8 amended: with tool or function messages in the conversation, the
\* normalized list holds only roles the provider accepts; on OpenAI, Groq,
\* Claude and Gemini every tool or function message is rewritten to user, on
\* Mistral to tool; its content is unchanged and its position among the other
\* messages is kept.
C8_RoleDowngrade ==
  (pc = "built" /\ HasToolOrFunction) =>
    /\ RolesAreNative
    /\ Embeds(SeqFilter(isNotSystem, Conversation), request.messages,
              client.provider, DowngradedRole(client.provider))

\* a Mistral request built from a history holding a function and a tool message
C8_Witness ==
  /\ pc = "built"
  /\ client.provider = "mistral"
  /\ Len(Conversation) = 3
  /\ Conversation[1].role = "function"
  /\ Conversation[2].role = "tool"
  /\ request.messages[1] = Msg("tool", MsgText(1))

\* the system messages of the conversation
SystemMessages == SeqFilter(isSystem, Conversation)

\* separators a provider could document between merged system texts
Separators == {Separator, <<"\n">>, <<" ">>, <<>>}

\* the case of C9 and C10: one system message A in the conversation, and
\* instructions B supplied per call or as client default
SystemAndInstructions ==
  /\ pc = "built"
  /\ Len(SystemMessages) = 1
  /\ SystemMessages[1].content # <<>>
  /\ Truthy(EffectiveInstructions)

\* C9: on Claude and Gemini a system message A together with instructions B
\* gives the side-channel value A, separator, B, and a message list without a
\* system entry.
C9_SideChannelMerge ==
  (SystemAndInstructions /\ client.provider \in SideChannelProviders) =>
    /\ \E sep \in Separators :
         request.system = Str(SystemMessages[1].content \o sep \o EffectiveInstructions.s)
    /\ \A k \in 1..Len(request.messages) : request.messages[k].role # "system"

\* C10: on OpenAI, Groq and Mistral a system message together with
\* instructions stays in the message list, with the instructions appended to
\* its content.
C10_InstructionsAppended ==
  (SystemAndInstructions /\ client.provider \notin SideChannelProviders) =>
    \E k \in 1..Len(request.messages) :
      /\ request.messages[k].role = "system"
      /\ \E sep \in Separators :
           IsPrefix(SystemMessages[1].content \o sep \o EffectiveInstructions.s,
                    request.messages[k].content)

\* the case of C11: no system message in the conversation, and non-empty
\* instructions in force
InstructionsWithoutSystem ==
  /\ pc = "built"
  /\ Len(SystemMessages) = 0
  /\ Truthy(EffectiveInstructions)

\* the system entries of the provider message list
SystemEntries == SeqFilter(isSystem, request.messages)

\* the request carries exactly one system directive, with this text: the
\* side-channel field and no system message on Claude and Gemini, one system
\* message at index 0 and no side-channel field elsewhere
OneDirective(text) ==
  IF client.provider \in SideChannelProviders
  THEN /\ request.system = Str(text)
       /\ SystemEntries = <<>>
  ELSE /\ request.system = Undefined
       /\ SystemEntries = <<Msg("system", text)>>
       /\ Head(request.messages) = Msg("system", text)

\* C11 as stated: without a system message in the conversation, supplied
\* instructions (per call before client default) give exactly one system
\* directive equal to those instructions, on every provider.
C11_DirectiveEqualsInstructions ==
  InstructionsWithoutSystem => OneDirective(EffectiveInstructions.s)

\* Groq's askJson on a model without structured outputs works by prompt
\* injection: the schema directive goes into the instructions
PromptInjectedInstructions ==
  /\ client.provider = "groq"
  /\ op = "askJson"
  /\ client.model \notin modelsSupportingStructuredOutputs

\* C11 amended: without a system message in the conversation, non-empty
\* instructions in force (per call before client default) give exactly one
\* system directive; it equals those instructions, except for Groq's askJson on
\* a model without structured outputs, where it is those instructions followed
\* by the separator and the JSON schema directive.
C11_OneSynthesizedDirective ==
  InstructionsWithoutSystem =>
    IF PromptInjectedInstructions
    THEN OneDirective(EffectiveInstructions.s \o Separator \o jsonInstructions)
    ELSE OneDirective(EffectiveInstructions.s)

\* an OpenAI request built from a history without system message, with per-call
\* instructions overriding the client default
C11_Witness ==
  /\ InstructionsWithoutSystem
  /\ client.provider = "openai"
  /\ client.instructions = Str(<<"D">>)
  /\ args.instructions = Str(<<"P">>)
  /\ Len(Conversation) = 3
  /\ Head(request.messages) = Msg("system", <<"P">>)

\* the text that all system messages of the conversation make, joined by sep
RECURSIVE JoinWith(_, _)
JoinWith(texts, sep) ==
  IF texts = <<>> THEN <<>>
  ELSE IF Len(texts) = 1 THEN Head(texts).content
  ELSE Head(texts).content \o sep \o JoinWith(Tail(texts), sep)

\* C12: with more than one (non-empty) system message in the conversation, the system
\* directive sent is all of them concatenated in order with a separator (on a
\* message-list provider: one system message holding it, or every system message
\* kept as a system message in order); none is dropped or turned into a
\* non-system message.
C12_SystemMessagesConcatenated ==
  (/\ pc = "built"
   /\ Len(SystemMessages) >= 2
   /\ \A k \in 1..Len(SystemMessages) : SystemMessages[k].content # <<>>) =>
    IF client.provider \in SideChannelProviders
    THEN /\ \E sep \in Separators :
              /\ request.system.tag = "string"
              /\ IsPrefix(JoinWith(SystemMessages, sep), request.system.s)
         /\ Len(request.messages) = Len(Conversation) - Len(SystemMessages)
    ELSE \/ /\ Len(SystemEntries) = 1
            /\ \E sep \in Separators :
                 IsPrefix(JoinWith(SystemMessages, sep), SystemEntries[1].content)
         \/ /\ Len(SystemEntries) = Len(SystemMessages)
            /\ \A k \in 1..Len(SystemEntries) :
                 IsPrefix(SystemMessages[k].content, SystemEntries[k].content)

\* C13: on every provider and for every operation, the last entry of the
\* provider message list is a user message whose content is exactly the caller's
\* input, and the caller's earlier non-system messages come before it in their
\* original order.
C13_LastIsUserInput ==
  pc = "built" =>
    /\ request.messages # <<>>
    /\ request.messages[Len(request.messages)] = Msg("user", args.input)
    /\ Embeds(SeqFilter(isNotSystem, messagesOrEmpty(args.messages)),
              SubSeq(request.messages, 1, Len(request.messages) - 1),
              client.provider, DowngradedRole(client.provider))

\* part occurs in text as a run of consecutive tokens
Contains(text, part) ==
  \E i \in 0..(Len(text) - Len(part)) : SubSeq(text, i + 1, i + Len(part)) = part

\* the text occurs somewhere in the provider request: in a message of the list
\* or in the side-channel field
InRequest(text) ==
  \/ \E k \in 1..Len(request.messages) : Contains(request.messages[k].content, text)
  \/ request.system.tag = "string" /\ Contains(request.system.s, text)

\* C14: normalization never loses content: every message's content of the
\* conversation, and the text of the instructions in force, appear in the
\* provider request, in the message list or in the side-channel field.
C14_ContentNeverLost ==
  pc = "built" =>
    /\ \A i \in 1..Len(Conversation) : InRequest(Conversation[i].content)
    /\ Truthy(EffectiveInstructions) => InRequest(EffectiveInstructions.s)

----------------------------------------------------------------------------
(* Texts: what the response handling does to strings *)

WhiteSpace == " "

\* the JSON documents a provider text can hold, each one token
JsonDocs == {"{greeting:Hello,language:English}",
             "{greeting:Hello,language:English,note:hi}",
             "{greeting:7,language:English}"}

Tokens == {"<think>", "</think>", WhiteSpace, "x"} \cup JsonDocs

\* every text of at most n tokens
Texts(n) == UNION {[1..k -> Tokens] : k \in 0..n}

RECURSIVE trimStart(_)
\* String.prototype.trimStart
trimStart(s) ==
  IF s # <<>> /\ Head(s) = WhiteSpace THEN trimStart(Tail(s)) ELSE s

RECURSIVE trimEnd(_)
trimEnd(s) ==
  IF s # <<>> /\ s[Len(s)] = WhiteSpace THEN trimEnd(SubSeq(s, 1, Len(s) - 1)) ELSE s

\* String.prototype.trim
trim(s) == trimEnd(trimStart(s))

\* value.lastIndexOf(tok), as the index of the token (0 when absent)
lastIndexOf(s, tok) ==
  IF \E i \in 1..Len(s) : s[i] = tok
  THEN CHOOSE i \in 1..Len(s) : s[i] = tok /\ \A j \in (i + 1)..Len(s) : s[j] # tok
  ELSE 0

\* Groq stripThinking(value). Without a "</think>" the code computes
\* -1 + "</think>".length = 7 = "<think>".length: the cut falls right after the
\* opening marker, the first token.
stripThinking(value) ==
  IF value.tag \in {"undefined", "null"} THEN value
  ELSE IF value.s # <<>> /\ Head(value.s) = "<think>"
  THEN LET last == lastIndexOf(value.s, "</think>")
           stopThinkingAt == IF last = 0 THEN 1 ELSE last
       IN  Str(trimStart(SubSeq(value.s, stopThinkingAt + 1, Len(value.s))))
  ELSE value

----------------------------------------------------------------------------
(* Errors, JSON and schema validation *)

\* an Error object: its class name, its message, and (ValiError) its issues
ErrorObj(name, message, issues) ==
  [tag |-> "error", name |-> name, s |-> message, issues |-> issues]

\* String(value) of a value that is not an Error
StringOf(value) ==
  CASE value.tag = "string"    -> value.s
    [] value.tag = "undefined" -> <<"undefined">>
    [] value.tag = "null"      -> <<"null">>

\* handleError wrapping every raised value in a new Error
handleErrorWrapAll(error) == ErrorObj("Error", StringOf(Str(error.s)), {})

\* handleError answering every failure with one generic Error
handleErrorGeneric(error) == ErrorObj("Error", <<"Request failed">>, {})

\* handleError(error)
handleError(error) ==
  IF error.tag = "error" THEN error ELSE ErrorObj("Error", StringOf(error), {})

\* what a block of code does: it returns a value or throws one
Returned(value) == [kind |-> "return", value |-> value]
Thrown(value)   == [kind |-> "throw", value |-> value]

StringValue(v) == [t |-> "string", v |-> v]
NumberValue(v) == [t |-> "number", v |-> v]

\* a parsed JSON object: its entries
ObjectValue(entries) == [tag |-> "object", entries |-> entries]

\* the value a JSON document denotes
JsonValue(doc) ==
  CASE doc = "{greeting:Hello,language:English}" ->
         ObjectValue([greeting |-> StringValue("Hello"), language |-> StringValue("English")])
    [] doc = "{greeting:Hello,language:English,note:hi}" ->
         ObjectValue([greeting |-> StringValue("Hello"), language |-> StringValue("English"),
                      note |-> StringValue("hi")])
    [] doc = "{greeting:7,language:English}" ->
         ObjectValue([greeting |-> NumberValue("7"), language |-> StringValue("English")])

\* JSON.parse(text): white space around one JSON document is allowed; anything
\* else is a SyntaxError
JsonParse(text) ==
  LET body == trim(text)
  IN  IF Len(body) = 1 /\ body[1] \in JsonDocs
      THEN Returned(JsonValue(body[1]))
      ELSE Thrown(ErrorObj("SyntaxError", <<"JSON Parse error">>, {}))

\* the schema of the test suite: object({greeting: string(), language: string()})
Schema == [greeting |-> "string", language |-> "string"]

\* the entries of value the schema does not accept
SchemaIssues(schema, value) ==
  {k \in DOMAIN schema : k \notin DOMAIN value.entries \/ value.entries[k].t # schema[k]}

\* valibot parse(schema, value): the output keeps the schema's entries only;
\* a value that does not satisfy the schema raises a ValiError with the issues
parse(schema, value) ==
  IF SchemaIssues(schema, value) = {}
  THEN Returned(ObjectValue([k \in DOMAIN schema |-> value.entries[k]]))
  ELSE Thrown(ErrorObj("ValiError", <<"Invalid type">>, SchemaIssues(schema, value)))

\* the schemas a caller passes: the object schema above, or one that has no
\* JSON Schema form
SchemaKinds == {"object", "unsupported"}

\* toJsonSchema(schema): a schema without a JSON Schema form raises
toJsonSchema(schema) ==
  IF schema = "object"
  THEN Returned(Str(SchemaJson))
  ELSE Thrown(ErrorObj("Error", <<"cannot be converted to JSON Schema">>, {}))

----------------------------------------------------------------------------
(* Response Unifier of ask and askJson: the code after the awaited provider call *)

\* an outcome together with the library calls made on the way; "f!" says that
\* the call of f raised
Did(calls, outcome) == [kind |-> outcome.kind, value |-> outcome.value, steps |-> calls]

\* array[0] of an array of optional strings (undefined when the array is empty)
first(array) == IF array = <<>> THEN Undefined ELSE array[1]

\* orEmpty without the fallback: the content goes out as it came
orEmptyForgotten(content) == content

\* content || ""
orEmpty(content) == IF Truthy(content) THEN content ELSE Str(<<>>)

NoContentError == ErrorObj("Error", <<"No response content received">>, {})
NoToolUseError == ErrorObj("Error", <<"No tool use response received">>, {})

\* parseAndValidate without the validation: the parsed payload goes out
parseOnly(schema, text) ==
  LET parsed == JsonParse(text)
  IN  Did({"JSON.parse"} \cup (IF parsed.kind = "throw" THEN {"JSON.parse!"} ELSE {}), parsed)

\* parse(askParameters.schema, JSON.parse(content))
parseAndValidate(schema, text) ==
  LET parsed == JsonParse(text)
  IN  IF parsed.kind = "throw"
      THEN Did({"JSON.parse", "JSON.parse!"}, parsed)
      ELSE LET validated == parse(schema, parsed.value)
           IN  Did({"JSON.parse", "parse"}
                     \cup (IF validated.kind = "throw" THEN {"parse!"} ELSE {}),
                   validated)

\* OpenAI ask: completion.choices[0]?.message?.content || ""
askOpenAi(body) == Did({}, Returned(orEmpty(first(body.choices))))

\* OpenAI askJson
askJsonOpenAi(body, schema) ==
  LET content == first(body.choices)
  IN  IF ~Truthy(content)
      THEN Did({}, Returned(NoContentError))
      ELSE parseAndValidate(schema, content.s)

\* Groq ask: stripThinking(completion.choices[0]?.message?.content) || ""
askGroq(body) == Did({}, Returned(orEmpty(stripThinking(first(body.choices)))))

\* Groq askJson
askJsonGroq(body, schema) ==
  LET content == stripThinking(first(body.choices))
  IN  IF ~Truthy(content)
      THEN Did({}, Returned(NoContentError))
      ELSE parseAndValidate(schema, content.s)

\* Gemini ask: (response.text || "").trim()
askGemini(body) == Did({}, Returned(Str(trim(orEmpty(body.text).s))))

\* Gemini askJson without the check for empty content
askJsonGeminiUnchecked(body, schema) == parseAndValidate(schema, trim(body.text.s))

\* Gemini askJson
askJsonGemini(body, schema) ==
  LET content == body.text
  IN  IF ~Truthy(content)
      THEN Did({}, Returned(NoContentError))
      ELSE parseAndValidate(schema, trim(content.s))

\* completion.content?.[0] of a Claude completion: the first block, if any
firstBlock(body) ==
  IF body.content.tag = "array" /\ body.content.list # <<>>
  THEN <<body.content.list[1]>>
  ELSE <<>>

\* Claude ask: the text of the first content block when it is a text block
askClaude(body) ==
  LET content == firstBlock(body)
  IN  IF content # <<>> /\ content[1].type = "text"
      THEN Did({}, Returned(Str(content[1].text)))
      ELSE Did({}, Returned(Str(<<>>)))

\* Claude askJson: the validated input of the forced tool call
askJsonClaude(body, schema) ==
  LET content == firstBlock(body)
  IN  IF content = <<>> \/ content[1].type # "tool_use"
      THEN Did({}, Returned(NoToolUseError))
      ELSE LET validated == parse(schema, content[1].input)
           IN  Did({"parse"} \cup (IF validated.kind = "throw" THEN {"parse!"} ELSE {}),
                   validated)

RECURSIVE joinChunks(_)
\* content.map((chunk) => chunk.text || "").join("")
joinChunks(chunks) ==
  IF chunks = <<>> THEN <<>>
  ELSE orEmpty(Head(chunks).text).s \o joinChunks(Tail(chunks))

\* result.choices?.[0]?.message?.content of a Mistral result
firstContentMistral(body) ==
  IF body.choices = <<>> THEN Undefined ELSE body.choices[1]

\* Mistral ask
askMistral(body) ==
  LET content == firstContentMistral(body)
  IN  IF content.tag = "string" THEN Did({}, Returned(content))
      ELSE IF content.tag = "array" THEN Did({}, Returned(Str(joinChunks(content.arr))))
      ELSE Did({}, Returned(Str(<<>>)))

\* Mistral askJson
askJsonMistral(body, schema) ==
  LET content == firstContentMistral(body)
  IN  IF content.tag \notin {"string", "array"}
      THEN Did({}, Returned(NoContentError))
      ELSE LET contentStr == IF content.tag = "string" THEN content.s
                             ELSE joinChunks(content.arr)
           IN  IF contentStr = <<>>
               THEN Did({}, Returned(NoContentError))
               ELSE parseAndValidate(schema, contentStr)

\* the rest of the try block of ask or askJson, once the provider call resolved
unify(provider, o, body, schema) ==
  CASE provider = "openai"  -> IF o = "ask" THEN askOpenAi(body) ELSE askJsonOpenAi(body, schema)
    [] provider = "groq"    -> IF o = "ask" THEN askGroq(body) ELSE askJsonGroq(body, schema)
    [] provider = "google"  -> IF o = "ask" THEN askGemini(body) ELSE askJsonGemini(body, schema)
    [] provider = "claude"  -> IF o = "ask" THEN askClaude(body) ELSE askJsonClaude(body, schema)
    [] provider = "mistral" -> IF o = "ask" THEN askMistral(body) ELSE askJsonMistral(body, schema)

\* how the promise of an async call settles
Resolved(value) == [kind |-> "resolved", value |-> value]
Rejected(value) == [kind |-> "rejected", value |-> value]

\* the catch clause throwing what it should return
catchAndRethrow(outcome) ==
  IF outcome.kind = "throw"
  THEN Rejected(handleError(outcome.value))
  ELSE Resolved(outcome.value)

\* try { ... } catch (error) { return handleError(error) } of ask and askJson
catchAndReturn(outcome) ==
  IF outcome.kind = "throw"
  THEN Resolved(handleError(outcome.value))
  ELSE Resolved(outcome.value)

----------------------------------------------------------------------------
(* What a provider can answer *)

\* the content of a candidate: absent, null or a text
Contents == {Undefined, Null} \cup {Str(text) : text \in Texts(MaxLen)}

\* OpenAI and Groq completions: the contents of the candidates, first one first
ChoicesBodies ==
  {[choices |-> <<>>]}
    \cup {[choices |-> <<c>>] : c \in Contents}
    \cup {[choices |-> <<c, Str(<<"x">>)>>] : c \in Contents}

\* Gemini responses: response.text
GeminiBodies == {[text |-> c] : c \in Contents \ {Null}}

TextBlock(text) == [type |-> "text", text |-> text]
ToolUse(input)  == [type |-> "tool_use", input |-> input]
ThinkingBlock   == [type |-> "thinking"]

ClaudeBlocks ==
  {TextBlock(text) : text \in Texts(MaxLen)}
    \cup {ToolUse(JsonValue(doc)) : doc \in JsonDocs}
    \cup {ThinkingBlock}

\* Claude completions: the content blocks
ClaudeBodies ==
  {[content |-> NoMessages], [content |-> Messages(<<>>)]}
    \cup {[content |-> Messages(<<b>>)] : b \in ClaudeBlocks}
    \cup {[content |-> Messages(<<b, TextBlock(<<"x">>)>>)] : b \in ClaudeBlocks}

\* a Mistral content chunk; a chunk that is no text chunk has no text
Chunk(text) == [text |-> text]

Chunks == {Chunk(Undefined)} \cup {Chunk(Str(text)) : text \in Texts(1)}

ChunkArray(chunks) == [tag |-> "array", arr |-> chunks]

ChunkArrays == {ChunkArray(arr) : arr \in UNION {[1..n -> Chunks] : n \in 0..MaxChunks}}

\* Mistral results: the content of the first choice is a string or chunks
MistralBodies ==
  {[choices |-> <<>>]} \cup {[choices |-> <<c>>] : c \in Contents \cup ChunkArrays}

Bodies(provider) ==
  CASE provider = "openai"  -> ChoicesBodies
    [] provider = "groq"    -> ChoicesBodies
    [] provider = "google"  -> GeminiBodies
    [] provider = "claude"  -> ClaudeBodies
    [] provider = "mistral" -> MistralBodies

\* a create primitive invoked twice for one call
invokeTwice(n) == n + 2

\* the provider's create primitive is invoked (chat.completions.create,
\* messages.create, models.generateContent, chat.complete, chat.stream): one
\* more invocation
invoke(n) == n + 1

\* what a provider call or a provider stream can raise: an Error of the SDK, or
\* a value that is no Error
RaisedValues == {ErrorObj("APIError", <<"429 rate limited">>, {}), Str(<<"boom">>), Undefined}

----------------------------------------------------------------------------
(* Specification of ask and askJson: one call, from its start to its result *)

AskOps == {"ask", "askJson"}

InitAsk ==
  /\ Init
  /\ client.instructions = Undefined

\* the call runs to its await: it converts the schema (askJson), builds the
\* request and issues the provider call; an exception ends it in the catch
AskStart ==
  /\ pc = "idle"
  /\ \E o \in AskOps, schema \in SchemaKinds :
       LET params == [input |-> InputText, messages |-> NoMessages,
                      instructions |-> Undefined, schema |-> schema]
           converted == IF o = "askJson" THEN toJsonSchema(schema) ELSE Returned(Undefined)
       IN  /\ o = "ask" => schema = "object"
           /\ op' = o
           /\ args' = params
           /\ IF converted.kind = "throw"
              THEN /\ request' = NoRequest
                   /\ steps' = {"toJsonSchema", "toJsonSchema!"}
                   /\ result' = catchAndReturn(converted)
                   /\ creates' = creates
                   /\ pc' = "done"
              ELSE /\ request' = BuildRequest(client, o, params)
                   /\ steps' = (IF o = "askJson" THEN {"toJsonSchema"} ELSE {}) \cup {"create"}
                   /\ result' = result
                   /\ creates' = invoke(creates)
                   /\ pc' = "awaiting"
  /\ UNCHANGED <<client, response, pos, yielded, status, inner>>

\* the provider call rejects: the catch clause runs
ProviderRejects ==
  /\ pc = "awaiting"
  /\ \E raised \in RaisedValues :
       /\ response' = [kind |-> "rejected", value |-> raised]
       /\ result' = catchAndReturn(Thrown(raised))
  /\ steps' = steps \cup {"create!"}
  /\ pc' = "done"
  /\ UNCHANGED <<client, creates, op, args, request, pos, yielded, status, inner>>

\* the provider call resolves: the rest of the try block runs
ProviderResolves ==
  /\ pc = "awaiting"
  /\ \E body \in Bodies(client.provider) :
       LET outcome == unify(client.provider, op, body, Schema)
       IN  /\ response' = [kind |-> "resolved", body |-> body]
           /\ result' = catchAndReturn(outcome)
           /\ steps' = steps \cup outcome.steps
  /\ pc' = "done"
  /\ UNCHANGED <<client, creates, op, args, request, pos, yielded, status, inner>>

NextAsk == AskStart \/ ProviderRejects \/ ProviderResolves

SpecAsk == InitAsk /\ [][NextAsk]_vars

----------------------------------------------------------------------------
(* Properties of ask and askJson *)

\* the call is over and the provider call had resolved
Answered(o) == pc = "done" /\ op = o /\ response.kind = "resolved"

\* an exception was raised while building the request, by the provider call,
\* by JSON parsing or by schema validation
SomethingRaised == steps \cap {"toJsonSchema!", "create!", "JSON.parse!", "parse!"} # {}

\* C1: ask and askJson never throw or reject; whatever is raised while building
\* the request, by the provider call, by JSON parsing or by schema validation
\* comes back as an Error value.
C1_NeverRejects ==
  pc = "done" =>
    /\ result.kind = "resolved"
    /\ SomethingRaised => result.value.tag = "error"

\* an askJson call whose provider call raised a value that is no Error
C1_Witness ==
  /\ pc = "done"
  /\ op = "askJson"
  /\ response = [kind |-> "rejected", value |-> Undefined]
  /\ result = Resolved(ErrorObj("Error", <<"undefined">>, {}))

\* a candidate content that is absent, null or the empty string
NoText(content) == content \in {Undefined, Null, Str(<<>>)}

\* the first candidate of the response carries no text
EmptyContent(provider, body) ==
  CASE provider \in {"openai", "groq"} ->
         body.choices = <<>> \/ NoText(body.choices[1])
    [] provider = "google" -> NoText(body.text)
    [] provider = "mistral" ->
         \/ body.choices = <<>>
         \/ NoText(body.choices[1])
         \/ /\ body.choices[1].tag = "array"
            /\ \A i \in 1..Len(body.choices[1].arr) : NoText(body.choices[1].arr[i].text)
    [] provider = "claude" ->
         body.content.tag # "array" \/ body.content.list = <<>>

\* Claude: the first content block is not a text block
FirstBlockNotText(provider, body) ==
  /\ provider = "claude"
  /\ body.content.tag = "array"
  /\ body.content.list # <<>>
  /\ body.content.list[1].type # "text"

\* C4: when the provider call succeeds but the first candidate carries null,
\* absent or empty text (Claude: no first block, or a first block that is not
\* text), ask returns the empty string, not an Error.
C4_AskEmptyGivesEmptyString ==
  (/\ Answered("ask")
   /\ \/ EmptyContent(client.provider, response.body)
      \/ FirstBlockNotText(client.provider, response.body))
    => result = Resolved(Str(<<>>))

\* an OpenAI ask whose first candidate has null content
C4_Witness ==
  /\ Answered("ask")
  /\ client.provider = "openai"
  /\ response.body.choices = <<Null>>
  /\ result = Resolved(Str(<<>>))

EmptyResponseErrors == {NoContentError, NoToolUseError}

\* C5: when the provider call succeeds but returns null, absent or empty
\* content, askJson returns an EmptyResponse Error, attempts neither JSON
\* parsing nor schema validation, and returns no value.
C5_AskJsonEmptyGivesError ==
  (Answered("askJson") /\ EmptyContent(client.provider, response.body)) =>
    /\ result.kind = "resolved"
    /\ result.value \in EmptyResponseErrors
    /\ steps \cap {"JSON.parse", "parse"} = {}

\* a Gemini askJson whose response text is the empty string
C5_Witness ==
  /\ Answered("askJson")
  /\ client.provider = "google"
  /\ response.body.text = Str(<<>>)
  /\ result = Resolved(NoContentError)

\* why an askJson call whose provider call resolved gave no value
FailureCause ==
  IF "JSON.parse!" \in steps THEN "parse error"
  ELSE IF "parse!" \in steps THEN "schema validation error"
  ELSE IF steps \cap {"JSON.parse", "parse"} = {} THEN "no content"
  ELSE "none"

\* the kind of failure a returned value tells its caller
FailureKind(value) ==
  IF value.tag # "error" THEN "none"
  ELSE IF value \in EmptyResponseErrors THEN "no content"
  ELSE IF value.name = "SyntaxError" THEN "parse error"
  ELSE IF value.name = "ValiError" /\ value.issues # {} THEN "schema validation error"
  ELSE "other"

\* C6: askJson returns (never throws) its three failures as distinct kinds:
\* empty content a 'no content' Error, non-JSON content a parse Error, JSON
\* that violates the schema a validation Error carrying the issues.
C6_DistinctFailures ==
  Answered("askJson") =>
    /\ result.kind = "resolved"
    /\ FailureKind(result.value) = FailureCause
    /\ EmptyContent(client.provider, response.body) => FailureKind(result.value) = "no content"

\* a Mistral askJson whose JSON has a number where the schema wants a string
C6_Witness ==
  /\ Answered("askJson")
  /\ client.provider = "mistral"
  /\ response.body.choices = <<Str(<<"{greeting:7,language:English}">>)>>
  /\ result.value.tag = "error"
  /\ result.value.name = "ValiError"
  /\ result.value.issues = {"greeting"}

\* C7: a value askJson returns that is not an Error is the output of the
\* schema validation: it has the schema's entries, each of the schema's type,
\* and nothing else of the provider's payload.
C7_OnlyValidatedValues ==
  (pc = "done" /\ op = "askJson" /\ result.value.tag # "error") =>
    /\ result.kind = "resolved"
    /\ result.value.tag = "object"
    /\ DOMAIN result.value.entries = DOMAIN Schema
    /\ \A k \in DOMAIN Schema : result.value.entries[k].t = Schema[k]
    /\ "parse" \in steps /\ "parse!" \notin steps

\* a Claude askJson whose tool call carries an entry the schema does not have
C7_Witness ==
  /\ Answered("askJson")
  /\ client.provider = "claude"
  /\ response.body.content.list = <<ToolUse(JsonValue("{greeting:Hello,language:English,note:hi}"))>>
  /\ result = Resolved(JsonValue("{greeting:Hello,language:English}"))

----------------------------------------------------------------------------
(* stream: the async generator between the provider stream and the consumer *)

\* the text of the i-th delta of a provider stream: distinct per arrival
FragText(i) == <<"f" \o ToString(i)>>

\* the text of the j-th content chunk of the i-th delta (Mistral)
ChunkText(i, j) == <<"f" \o ToString(i) \o "." \o ToString(j)>>

\* a Mistral content chunk of a delta: "text" in chunk, and chunk.text
StreamChunk(hasText, text) == [hasText |-> hasText, text |-> text]

TextDelta(text) == [type |-> "content_block_delta", delta |-> [type |-> "text_delta", text |-> text]]

\* the deltas a provider can deliver as the i-th of its stream
Deltas(provider, i) ==
  CASE provider \in {"openai", "groq"} ->
         {[content |-> c] : c \in {Undefined, Null, Str(<<>>), Str(FragText(i))}}
    [] provider = "google" ->
         {[text |-> c] : c \in {Undefined, Str(<<>>), Str(FragText(i))}}
    [] provider = "claude" ->
         {TextDelta(FragText(i)), TextDelta(<<>>),
          [type |-> "content_block_delta", delta |-> [type |-> "input_json_delta"]],
          [type |-> "message_start"]}
    [] provider = "mistral" ->
         {[content |-> c] : c \in {Undefined, Null, Str(<<>>), Str(FragText(i))}}
           \cup {[content |-> ChunkArray(arr)] : arr \in
                   {<<>>,
                    <<StreamChunk(TRUE, Str(ChunkText(i, 1)))>>,
                    <<StreamChunk(FALSE, Undefined), StreamChunk(TRUE, Str(ChunkText(i, 2)))>>,
                    <<StreamChunk(TRUE, Str(ChunkText(i, 1))), StreamChunk(TRUE, Str(<<>>))>>,
                    <<StreamChunk(TRUE, Str(ChunkText(i, 1))),
                      StreamChunk(TRUE, Str(ChunkText(i, 2)))>>}}

\* OpenAI stream, the body of the for await loop: if (content) yield content
fragmentsOpenAi(delta) == IF Truthy(delta.content) THEN <<delta.content.s>> ELSE <<>>

\* Groq stream, the body of the for await loop: if (content) yield content
fragmentsGroq(delta) == IF Truthy(delta.content) THEN <<delta.content.s>> ELSE <<>>

\* Gemini stream: if (chunk.text !== undefined) yield chunk.text
fragmentsGemini(delta) == IF delta.text.tag # "undefined" THEN <<delta.text.s>> ELSE <<>>

\* Claude stream: text deltas of content blocks are yielded
fragmentsClaude(delta) ==
  IF delta.type = "content_block_delta" /\ delta.delta.type = "text_delta"
  THEN <<delta.delta.text>>
  ELSE <<>>

RECURSIVE chunkFragments(_)
\* Mistral stream, the inner loop: a chunk with a text yields text || ""
chunkFragments(chunks) ==
  IF chunks = <<>> THEN <<>>
  ELSE (IF Head(chunks).hasText THEN <<orEmpty(Head(chunks).text).s>> ELSE <<>>)
         \o chunkFragments(Tail(chunks))

\* Mistral stream: a string content is yielded, an array of chunks chunk by chunk
fragmentsMistral(delta) ==
  IF delta.content.tag = "string" THEN <<delta.content.s>>
  ELSE IF delta.content.tag = "array" THEN chunkFragments(delta.content.arr)
  ELSE <<>>

\* the fragments the generator yields for one delta, in order
Fragments(provider, delta) ==
  CASE provider = "openai"  -> fragmentsOpenAi(delta)
    [] provider = "groq"    -> fragmentsGroq(delta)
    [] provider = "google"  -> fragmentsGemini(delta)
    [] provider = "claude"  -> fragmentsClaude(delta)
    [] provider = "mistral" -> fragmentsMistral(delta)

\* the catch clause of stream throwing the raised value as it is
catchAndThrowRaw(raised) == Rejected(raised)

\* catch (error) { throw handleError(error) } of stream
catchAndThrow(raised) == Rejected(handleError(raised))

\* what a pull gave the consumer
Yielded(fragment) == [kind |-> "yielded", value |-> Str(fragment)]
Finished == [kind |-> "finished"]

\* one client per provider: the streaming code does not look at the model
StreamClients ==
  {c \in ValidClients :
     /\ c.instructions = Undefined
     /\ c.model \in {"gpt-4.1", "llama-3.3-70b-versatile", "gemini-2.5-pro",
                     "claude-sonnet-4-0", "magistral-medium-latest"}}

InitStream ==
  /\ Init
  /\ client \in StreamClients

\* stream(input): the generator object is made; none of its body has run
StreamCall ==
  /\ pc = "idle"
  /\ pc' = "streaming"
  /\ op' = "stream"
  /\ args' = [input |-> InputText, messages |-> NoMessages, instructions |-> Undefined]
  /\ status' = "created"
  /\ UNCHANGED <<client, creates, request, response, result, steps, pos, yielded, inner>>

\* the consumer pulls. The first pull starts the body: the request is built and
\* the provider call issued. A later pull resumes after the yield: a further
\* chunk of the same delta is yielded at once, else the next delta is awaited.
Pull ==
  /\ pc = "streaming"
  /\ status \in {"created", "suspended"}
  /\ IF status = "created"
     THEN /\ request' = BuildRequest(client, op, args)
          /\ steps' = {"create"}
          /\ creates' = invoke(creates)
          /\ response' = [kind |-> "stream", deltas |-> <<>>, end |-> "open",
                          raised |-> Undefined]
          /\ status' = "running"
          /\ UNCHANGED <<result, yielded, inner>>
     ELSE LET frags == Fragments(client.provider, response.deltas[Len(response.deltas)])
          IN  /\ IF inner < Len(frags)
                 THEN /\ yielded' = Append(yielded, frags[inner + 1])
                      /\ result' = Yielded(frags[inner + 1])
                      /\ inner' = inner + 1
                      /\ status' = "suspended"
                 ELSE /\ status' = "running"
                      /\ inner' = 0
                      /\ UNCHANGED <<result, yielded>>
              /\ UNCHANGED <<request, steps, response, creates>>
  /\ UNCHANGED <<client, pc, op, args, pos>>

\* the provider delivers a delta to the running generator, which yields its
\* first fragment or, if it has none, goes on awaiting
DeltaArrives ==
  /\ status = "running"
  /\ pos < MaxDeltas
  /\ \E delta \in Deltas(client.provider, pos + 1) :
       LET frags == Fragments(client.provider, delta)
       IN  /\ response' = [response EXCEPT !.deltas = Append(@, delta)]
           /\ IF frags = <<>>
              THEN UNCHANGED <<result, yielded, status, inner>>
              ELSE /\ yielded' = Append(yielded, frags[1])
                   /\ result' = Yielded(frags[1])
                   /\ inner' = 1
                   /\ status' = "suspended"
  /\ pos' = pos + 1
  /\ UNCHANGED <<client, creates, pc, op, args, request, steps>>

\* the provider call rejects, or the provider stream raises: the catch clause
\* runs and the pending pull throws
StreamRaises ==
  /\ status = "running"
  /\ \E raised \in RaisedValues :
       /\ response' = [response EXCEPT !.end = "raised", !.raised = raised]
       /\ result' = catchAndThrow(raised)
  /\ status' = "thrown"
  /\ UNCHANGED <<client, creates, pc, op, args, request, steps, pos, yielded, inner>>

\* the provider stream ends: the generator returns
StreamEnds ==
  /\ status = "running"
  /\ response' = [response EXCEPT !.end = "ended"]
  /\ result' = Finished
  /\ status' = "done"
  /\ UNCHANGED <<client, creates, pc, op, args, request, steps, pos, yielded, inner>>

NextStream == StreamCall \/ Pull \/ DeltaArrives \/ StreamRaises \/ StreamEnds

SpecStream == InitStream /\ [][NextStream]_vars

----------------------------------------------------------------------------
(* Properties of stream *)

\* the provider call or the provider stream has raised
ProviderRaised == response.kind = "stream" /\ response.end = "raised"

\* the Error a raised value is surfaced as: the value itself when it is an
\* Error, otherwise a new Error whose message is the value as a string
SurfacedAs(raised) ==
  IF raised.tag = "error" THEN raised
  ELSE ErrorObj("Error", IF raised.tag = "string" THEN raised.s ELSE <<raised.tag>>, {})

\* C2: when the provider call or stream raises after k fragments were yielded,
\* the consumer has exactly those k fragments, the pending pull throws an Error
\* (the raised value itself if it is an Error, else an Error wrapping it), and
\* no fragment is delivered after the throw.
C2_RaiseAfterFragments ==
  /\ [](ProviderRaised =>
          /\ status = "thrown"
          /\ result = Rejected(SurfacedAs(response.raised)))
  /\ [][status' = "thrown" => yielded' = yielded /\ pos' = pos]_vars
  /\ [][status = "thrown" => status' = "thrown" /\ result' = result]_vars

\* a Mistral stream that raised a string after two fragments were yielded
C2_Witness ==
  /\ status = "thrown"
  /\ client.provider = "mistral"
  /\ yielded = <<FragText(1), FragText(2)>>
  /\ response.raised = Str(<<"boom">>)
  /\ result = Rejected(ErrorObj("Error", <<"boom">>, {}))

\* the texts a delta carries, absent ones as undefined
DeltaTexts(provider, delta) ==
  CASE provider \in {"openai", "groq"} -> <<delta.content>>
    [] provider = "google" -> <<delta.text>>
    [] provider = "claude" ->
         IF delta.type = "content_block_delta" /\ delta.delta.type = "text_delta"
         THEN <<Str(delta.delta.text)>>
         ELSE <<>>
    [] provider = "mistral" ->
         IF delta.content.tag = "array"
         THEN [j \in 1..Len(delta.content.arr) |->
                 IF delta.content.arr[j].hasText THEN delta.content.arr[j].text ELSE Undefined]
         ELSE <<delta.content>>

RECURSIVE CarriedTexts(_, _)
\* the texts of the text-carrying deltas, in arrival order: absent, null and
\* empty texts left out
CarriedTexts(provider, deltas) ==
  IF deltas = <<>> THEN <<>>
  ELSE LET texts == DeltaTexts(provider, Head(deltas))
           kept  == SeqFilter(LAMBDA text : ~NoText(text), texts)
       IN  [j \in 1..Len(kept) |-> kept[j].s] \o CarriedTexts(provider, Tail(deltas))

\* C3: the sequence a finished stream yielded is the texts of the
\* text-carrying deltas, verbatim and in arrival order, and nothing else: a
\* delta whose text is absent, null or empty contributes no fragment.
C3_OnlyTextCarryingDeltas ==
  (pc = "streaming" /\ status = "done") =>
    yielded = CarriedTexts(client.provider, response.deltas)

----------------------------------------------------------------------------
(* Parameter Translator: the sampling, thinking and output-format fields of a *)
(* provider request.  A field whose value is undefined is a field not set.    *)

\* an optional number that is given
Num(n) == [tag |-> "number", n |-> n]

\* truthiness of an optional number: undefined and 0 are falsy
TruthyNumber(v) == v.tag = "number" /\ v.n # 0

\* type Thinking
Thinking == {"off", "low", "medium", "high"}

\* a thinking level, or a provider's word for one, as a value
Level(l) == Str(<<l>>)

False == [tag |-> "boolean", b |-> FALSE]

\* modelsWithTemperatureRestrictions with o4-mini left out
restrictionsWithoutO4Mini == {"gpt-5", "gpt-5-mini", "gpt-5-nano", "o3", "o3-mini"}

\* OpenAI models that accept the default sampling only
modelsWithTemperatureRestrictions ==
  {"gpt-5", "gpt-5-mini", "gpt-5-nano", "o3", "o3-mini", "o4-mini"}

\* thinkingModels taken to be every OpenAI model
thinkingModelsAll == openAiModels

\* OpenAI models that reason
thinkingModels == {"gpt-5", "gpt-5-mini", "gpt-5-nano", "o3", "o3-mini", "o4-mini"}

\* Gemini models that cannot run without thinking
thinkingOnlyModels == {"gemini-2.5-pro"}

\* Gemini's token budget of each level
thinkingBudgetTokens == [off |-> 0, low |-> 512, medium |-> 2048, high |-> 24576]

\* a model identifier outside every provider's list
UnknownModel == "unknown-model"

\* getReasoningEffortByModel with off passed on as it is
getReasoningEffortKeepOff(model, value) ==
  CASE model \in {"openai/gpt-oss-20b", "openai/gpt-oss-120b"} -> Level(value)
    [] model = "qwen/qwen3-32b" ->
         IF value = "off" THEN Level("none") ELSE Level("default")
    [] OTHER -> Undefined

\* getReasoningEffortByModel[model](value), for a model of groqModels
getReasoningEffortByModel(model, value) ==
  CASE model \in {"openai/gpt-oss-20b", "openai/gpt-oss-120b"} ->
         IF value = "off" THEN Level("low") ELSE Level(value)
    [] model = "qwen/qwen3-32b" ->
         IF value = "off" THEN Level("none") ELSE Level("default")
    [] OTHER -> Undefined

\* thinking && getReasoningEffortByModel[model](thinking): the record has no
\* entry for a model outside groqModels, and calling undefined raises
reasoningEffortGroq(model, thinking) ==
  IF ~Truthy(thinking) THEN Returned(thinking)
  ELSE IF model \notin groqModels
  THEN Thrown(ErrorObj("TypeError",
                       <<"getReasoningEffortByModel[model] is not a function">>, {}))
  ELSE Returned(getReasoningEffortByModel(model, thinking.s[1]))

\* the output-format part of a request: response_format (OpenAI, Groq),
\* responseFormat (Mistral), responseMimeType with responseJsonSchema (Gemini),
\* tools with tool_choice (Claude)
Format(type, schema) == [type |-> type, schema |-> schema]
NoFormat == Format("none", Undefined)

\* the fields of a provider request, under one name per field:
\* topP is top_p, topK is top_k, presencePenalty is presence_penalty,
\* frequencyPenalty is frequency_penalty, reasoningEffort is reasoning_effort,
\* includeReasoning is include_reasoning
CompletionParams(req, temperature, topP, topK, presencePenalty, frequencyPenalty, reasoningEffort, includeReasoning, thinkingConfig) ==
  [messages |-> req.messages, system |-> req.system,
   temperature |-> temperature, topP |-> topP, topK |-> topK,
   presencePenalty |-> presencePenalty, frequencyPenalty |-> frequencyPenalty,
   reasoningEffort |-> reasoningEffort, includeReasoning |-> includeReasoning,
   thinkingConfig |-> thinkingConfig, responseFormat |-> NoFormat]

\* {...params, <format fields>}
withFormat(params, format) == [params EXCEPT !.responseFormat = format]

\* OpenAI createBaseCompletionParams
createBaseCompletionParamsOpenAi(c, o, params) ==
  LET hasTemperatureRestriction == c.model \in modelsWithTemperatureRestrictions
      isThinkingModel == c.model \in thinkingModels
      reasoningEffort == Coalesce(params.thinking, c.thinking)
  IN  CompletionParams(
        requestOpenAi(c, o, params),
        IF hasTemperatureRestriction THEN Undefined ELSE params.temperature,
        IF hasTemperatureRestriction \/ params.temperature # Undefined
        THEN Undefined ELSE params.topP,
        Undefined,
        IF hasTemperatureRestriction THEN Undefined ELSE params.presencePenalty,
        IF hasTemperatureRestriction THEN Undefined ELSE params.frequencyPenalty,
        IF ~isThinkingModel THEN Undefined
        ELSE IF reasoningEffort = Level("off") THEN Level("low") ELSE reasoningEffort,
        Undefined,
        Undefined)

\* the rest of OpenAI's ask, askJson and stream up to the provider call
paramsOpenAi(c, o, params) ==
  LET base == createBaseCompletionParamsOpenAi(c, o, params)
      converted == toJsonSchema(params.schema)
  IN  IF o # "askJson" THEN Returned(base)
      ELSE IF converted.kind = "throw" THEN converted
      ELSE Returned(withFormat(base, Format("json_schema", converted.value)))

\* Groq createBaseCompletionParams; the messages are those of requestGroq, which
\* askJson replaces on a model without structured outputs
createBaseCompletionParamsGroq(c, o, params) ==
  LET thinking == Coalesce(params.thinking, c.thinking)
      reasoningEffort == reasoningEffortGroq(c.model, thinking)
  IN  IF reasoningEffort.kind = "throw" THEN reasoningEffort
      ELSE Returned(CompletionParams(
             requestGroq(c, o, params),
             params.temperature,
             IF TruthyNumber(params.temperature) THEN Undefined ELSE params.topP,
             Undefined,
             params.presencePenalty,
             params.frequencyPenalty,
             reasoningEffort.value,
             IF Truthy(reasoningEffort.value) THEN False ELSE Undefined,
             Undefined))

\* responseFormatGroq choosing by the request's content: json_object whenever
\* instructions are given
responseFormatByContent(c, params, converted) ==
  IF c.model \in modelsSupportingStructuredOutputs /\ params.instructions = Undefined
  THEN Format("json_schema", converted)
  ELSE Format("json_object", Undefined)

\* Groq askJson: responseFormat
responseFormatGroq(c, params, converted) ==
  IF c.model \in modelsSupportingStructuredOutputs
  THEN Format("json_schema", converted)
  ELSE Format("json_object", Undefined)

\* the rest of Groq's ask, askJson and stream up to the provider call: with
\* structured outputs the schema is converted before the base parameters are
\* made, without them after
paramsGroq(c, o, params) ==
  LET base == createBaseCompletionParamsGroq(c, o, params)
      converted == toJsonSchema(params.schema)
      supportsStructuredOutputs == c.model \in modelsSupportingStructuredOutputs
  IN  IF o # "askJson" THEN base
      ELSE IF supportsStructuredOutputs /\ converted.kind = "throw" THEN converted
      ELSE IF base.kind = "throw" THEN base
      ELSE IF converted.kind = "throw" THEN converted
      ELSE Returned(withFormat(base.value, responseFormatGroq(c, params, converted.value)))

\* Gemini createGenerationConfig, with the contents
createGenerationConfig(c, o, params) ==
  LET thinking == Coalesce(params.thinking, c.thinking)
      reasoningEffort ==
        IF thinking = Level("off") /\ c.model \in thinkingOnlyModels
        THEN Level("low") ELSE thinking
  IN  CompletionParams(
        requestGemini(c, o, params),
        params.temperature,
        IF params.topP # Undefined /\ params.temperature = Undefined
        THEN params.topP ELSE Undefined,
        params.topK,
        Undefined,
        Undefined,
        Undefined,
        Undefined,
        IF reasoningEffort # Undefined
        THEN [tag |-> "object", includeThoughts |-> FALSE,
              thinkingBudget |-> thinkingBudgetTokens[reasoningEffort.s[1]]]
        ELSE Undefined)

\* the rest of Gemini's ask, askJson and stream up to the provider call
paramsGemini(c, o, params) ==
  LET config == createGenerationConfig(c, o, params)
      converted == toJsonSchema(params.schema)
  IN  IF o # "askJson" THEN Returned(config)
      ELSE IF converted.kind = "throw" THEN converted
      ELSE Returned(withFormat(config, Format("application/json", converted.value)))

\* the tool of Claude's askJson declared but left to the model's choice
toolLeftToChoice(schema) ==
  [type |-> "tool", schema |-> schema,
   tools |-> <<[name |-> "json_response", input_schema |-> schema]>>,
   tool_choice |-> [type |-> "auto", name |-> "json_response"]]

\* the structured-output fields of Claude's askJson: tools, with the one tool
\* json_response whose input_schema is the converted schema, and tool_choice,
\* which forces that tool
forcedTool(schema) ==
  [type |-> "tool", schema |-> schema,
   tools |-> <<[name |-> "json_response", input_schema |-> schema]>>,
   tool_choice |-> [type |-> "tool", name |-> "json_response"]]

\* Claude createBaseCompletionParams without top_k
createBaseCompletionParamsClaudeNoTopK(c, o, params) ==
  CompletionParams(
    requestClaude(c, o, params),
    params.temperature,
    IF params.temperature # Undefined THEN Undefined ELSE params.topP,
    Undefined,
    Undefined,
    Undefined,
    Undefined,
    Undefined,
    Undefined)

\* Claude createBaseCompletionParams
createBaseCompletionParamsClaude(c, o, params) ==
  CompletionParams(
    requestClaude(c, o, params),
    params.temperature,
    IF params.temperature # Undefined THEN Undefined ELSE params.topP,
    params.topK,
    Undefined,
    Undefined,
    Undefined,
    Undefined,
    Undefined)

\* the rest of Claude's ask, askJson and stream up to the provider call
paramsClaude(c, o, params) ==
  LET base == createBaseCompletionParamsClaude(c, o, params)
      converted == toJsonSchema(params.schema)
  IN  IF o # "askJson" THEN Returned(base)
      ELSE IF converted.kind = "throw" THEN converted
      ELSE Returned(withFormat(base, forcedTool(converted.value)))

\* Mistral's calls omitting topP whenever a temperature is given
paramsMistralAnyTemperature(c, o, params) ==
  LET temperature == params.temperature
      topP == IF temperature # Undefined THEN Undefined ELSE params.topP
      converted == toJsonSchema(params.schema)
      complete == CompletionParams(requestMistral(c, o, params), temperature, topP,
                                   Undefined, Undefined, Undefined, Undefined,
                                   Undefined, Undefined)
  IN  IF o # "askJson" THEN Returned(complete)
      ELSE IF converted.kind = "throw" THEN converted
      ELSE Returned(withFormat(complete, Format("json_object", Undefined)))

\* Mistral's ask, askJson and stream up to the provider call
paramsMistral(c, o, params) ==
  LET temperature == params.temperature
      topP == IF temperature = Num(0) THEN Undefined ELSE params.topP
      converted == toJsonSchema(params.schema)
      complete == CompletionParams(requestMistral(c, o, params), temperature, topP,
                                   Undefined, Undefined, Undefined, Undefined,
                                   Undefined, Undefined)
  IN  IF o # "askJson" THEN Returned(complete)
      ELSE IF converted.kind = "throw" THEN converted
      ELSE Returned(withFormat(complete, Format("json_object", Undefined)))

\* what a call of operation o on client c does before its provider call: it
\* makes the parameters of the provider call, or raises
BuildParams(c, o, params) ==
  CASE c.provider = "openai"  -> paramsOpenAi(c, o, params)
    [] c.provider = "groq"    -> paramsGroq(c, o, params)
    [] c.provider = "mistral" -> paramsMistral(c, o, params)
    [] c.provider = "claude"  -> paramsClaude(c, o, params)
    [] c.provider = "google"  -> paramsGemini(c, o, params)

----------------------------------------------------------------------------
(* Specification of the parameter translation: a client, of a known model or *)
(* not, serves calls with sampling and thinking options one after another    *)

\* the thinking level given at construction (the client default)
DefaultThinking == {Undefined, Level("off"), Level("high")}

\* clients with a default thinking level; the model is one of the provider's
\* list or an identifier outside it
OptionClients ==
  {c \in [provider : Providers,
          model : UNION {ModelsOf(q) : q \in Providers} \cup {UnknownModel},
          instructions : {Undefined},
          thinking : DefaultThinking] :
     c.model \in ModelsOf(c.provider) \cup {UnknownModel}}

Temperatures    == {Undefined, Num(0), Num(1)}
TopPs           == {Undefined, Num(1)}
TopKs           == {Undefined, Num(40)}
Penalties       == {Undefined, Num(1)}
ThinkingOptions == {Undefined} \cup {Level(l) : l \in Thinking}

\* the history and the instructions of a call: none, or a system message and
\* per-call instructions
Contexts ==
  {[messages |-> NoMessages, instructions |-> Undefined],
   [messages |-> Messages(<<Msg("system", MsgText(1))>>), instructions |-> Str(<<"P">>)]}

OptionParameters ==
  {[input |-> InputText, messages |-> ctx.messages, instructions |-> ctx.instructions,
    temperature |-> t, topP |-> p, topK |-> k, presencePenalty |-> pp,
    frequencyPenalty |-> fp, thinking |-> th, schema |-> schema] :
     ctx \in Contexts, t \in Temperatures, p \in TopPs, k \in TopKs, pp \in Penalties,
     fp \in Penalties, th \in ThinkingOptions, schema \in SchemaKinds}

InitOptions ==
  /\ client \in OptionClients
  /\ pc = "idle"
  /\ op = "none"
  /\ args = NoArgs
  /\ request = NoRequest
  /\ response = NoResponse
  /\ result = NoResult
  /\ steps = {}
  /\ pos = 0
  /\ yielded = <<>>
  /\ status = "none"
  /\ inner = 0
  /\ creates = 0

\* the call runs up to its provider call: the parameters are made, or making
\* them raises and the catch clause ends the call (ask and askJson return the
\* Error, stream throws it)
CallWithOptions ==
  /\ pc = "idle"
  /\ \E o \in Ops, params \in OptionParameters :
       LET outcome == BuildParams(client, o, params)
       IN  /\ o # "askJson" => params.schema = "object"
           /\ op' = o
           /\ args' = params
           /\ IF outcome.kind = "throw"
              THEN /\ request' = NoRequest
                   /\ result' = IF o = "stream" THEN catchAndThrow(outcome.value)
                                ELSE catchAndReturn(outcome)
                   /\ pc' = "failed"
              ELSE /\ request' = outcome.value
                   /\ result' = result
                   /\ pc' = "built"
  /\ UNCHANGED <<client, creates, response, steps, pos, yielded, status, inner>>

\* the call is over; nothing of it is retained
CallEnds ==
  /\ pc \in {"built", "failed"}
  /\ pc' = "idle"
  /\ op' = "none"
  /\ args' = NoArgs
  /\ request' = NoRequest
  /\ result' = NoResult
  /\ UNCHANGED <<client, creates, response, steps, pos, yielded, status, inner>>

NextOptions == CallWithOptions \/ CallEnds

SpecOptions == InitOptions /\ [][NextOptions]_vars

----------------------------------------------------------------------------
(* Properties of the parameter translation *)

\* the OpenAI models that accept the default sampling only
TemperatureLocked == {"gpt-5", "gpt-5-mini", "gpt-5-nano", "o3", "o3-mini", "o4-mini"}

\* the caller set every sampling field
AllSamplingGiven ==
  /\ args.temperature # Undefined
  /\ args.topP # Undefined
  /\ args.presencePenalty # Undefined
  /\ args.frequencyPenalty # Undefined

\* C15: on a temperature-locked OpenAI model, whatever temperature, topP,
\* presencePenalty and frequencyPenalty the caller gives, none of the four
\* fields is set in the provider request of ask, askJson or stream.
C15_LockedModelsOmitSampling ==
  (/\ pc = "built"
   /\ client.provider = "openai"
   /\ client.model \in TemperatureLocked) =>
    /\ request.temperature = Undefined
    /\ request.topP = Undefined
    /\ request.presencePenalty = Undefined
    /\ request.frequencyPenalty = Undefined

\* a stream request on o4-mini, the caller having set all four fields
C15_Witness ==
  /\ pc = "built"
  /\ op = "stream"
  /\ client.provider = "openai"
  /\ client.model = "o4-mini"
  /\ AllSamplingGiven
  /\ request.temperature = Undefined
  /\ request.frequencyPenalty = Undefined

\* C16: on every provider, when the caller sets temperature (0 included), topP
\* is not set in the provider request; temperature and topP are never both
\* present in one request.
C16_TemperatureExcludesTopP ==
  pc = "built" =>
    /\ args.temperature # Undefined => request.topP = Undefined
    /\ ~(request.temperature # Undefined /\ request.topP # Undefined)

\* the thinking level in force: per call if given, else the client default
ResolvedThinking == Coalesce(args.thinking, client.thinking)

\* the OpenAI models that reason
ReasoningModels == {"gpt-5", "gpt-5-mini", "gpt-5-nano", "o3", "o3-mini", "o4-mini"}

\* the models that only run with thinking enabled
ThinkingOnly ==
  \/ client.provider = "openai" /\ client.model \in ReasoningModels
  \/ client.provider = "groq" /\ client.model \in {"openai/gpt-oss-20b", "openai/gpt-oss-120b"}
  \/ client.provider = "google" /\ client.model = "gemini-2.5-pro"

\* the request asks for thinking at this level: the level's name as reasoning
\* effort, or (Gemini) a token budget of at least the lowest level's 512
CarriesLevel(level) ==
  IF client.provider = "google"
  THEN /\ request.thinkingConfig # Undefined
       /\ IF level = Level("low")
          THEN request.thinkingConfig.thinkingBudget = 512
          ELSE request.thinkingConfig.thinkingBudget > 512
  ELSE request.reasoningEffort = level

\* C17: the thinking level is the per-call value if given, else the client
\* default; on a model that only runs with thinking enabled, a resolved level
\* of off is sent as the lowest level (low, or the 512-token budget), any other
\* level as it is, and the request never carries an off or zero setting.
C17_ThinkingOnlyModelsNeverOff ==
  (pc = "built" /\ ThinkingOnly /\ ResolvedThinking # Undefined) =>
    /\ CarriesLevel(IF ResolvedThinking = Level("off") THEN Level("low")
                    ELSE ResolvedThinking)
    /\ request.reasoningEffort \notin {Level("off"), Level("none")}
    /\ request.thinkingConfig # Undefined => request.thinkingConfig.thinkingBudget # 0

\* a Groq gpt-oss request with the client default off and no per-call level
C17_Witness ==
  /\ pc = "built"
  /\ client.provider = "groq"
  /\ client.model = "openai/gpt-oss-20b"
  /\ client.thinking = Level("off")
  /\ args.thinking = Undefined
  /\ request.reasoningEffort = Level("low")

\* the provider's models that do not support thinking
NoThinkingSupport ==
  \/ client.provider = "openai" /\ client.model \in openAiModels \ ReasoningModels
  \/ /\ client.provider = "groq"
     /\ client.model \in groqModels \ {"openai/gpt-oss-20b", "openai/gpt-oss-120b",
                                        "qwen/qwen3-32b"}
  \/ client.provider = "claude" /\ client.model \in claudeModels
  \/ client.provider = "mistral" /\ client.model \in mistralModels

\* the call was made and has built its request or failed before the provider call
CallMade == pc \in {"built", "failed"}

\* the schema of an askJson call has no JSON Schema form: the call fails for that
SchemaRejected == op = "askJson" /\ args.schema = "unsupported"

\* no thinking-related field is set: reasoning_effort, include_reasoning, thinkingConfig
NoThinkingField ==
  /\ request.reasoningEffort = Undefined
  /\ request.includeReasoning = Undefined
  /\ request.thinkingConfig = Undefined

\* C18: on a provider and model without thinking support, a thinking level
\* given per call or as client default leaves the provider request without any
\* thinking-related field, and the call does not fail because of it.
C18_UnsupportedThinkingIgnored ==
  (CallMade /\ NoThinkingSupport /\ ResolvedThinking # Undefined /\ ~SchemaRejected) =>
    /\ pc = "built"
    /\ NoThinkingField

\* the example of the README: thinking high and a temperature on Groq's llama-3.3
C18_Witness ==
  /\ pc = "built"
  /\ op = "ask"
  /\ client.provider = "groq"
  /\ client.model = "llama-3.3-70b-versatile"
  /\ args.thinking = Level("high")
  /\ args.temperature = Num(1)
  /\ request.temperature = Num(1)
  /\ NoThinkingField

\* the structured-output strategy of a provider request
Strategy(req) ==
  CASE req.responseFormat.type \in {"json_schema", "application/json"} -> "native schema"
    [] req.responseFormat.type = "tool"        -> "forced tool call"
    [] req.responseFormat.type = "json_object" -> "prompt injection"
    [] OTHER                                   -> "none"

\* C19: for a model identifier outside the provider's list, with any options
\* (a thinking level included), building the request does not fail and the model
\* is treated as the most restrictive one: no thinking field, no native JSON
\* schema mode, no temperature lock.
C19_UnknownModelMostRestrictive ==
  (CallMade /\ client.model = UnknownModel /\ ~SchemaRejected) =>
    /\ pc = "built"
    /\ NoThinkingField
    /\ Strategy(request) # "native schema"
    /\ request.temperature = args.temperature

\* other askJson calls a client can get: another input, with or without history
\* and instructions, temperature and thinking level
OtherCalls ==
  {[input |-> <<"other">>, messages |-> ctx.messages, instructions |-> ctx.instructions,
    temperature |-> t, topP |-> Undefined, topK |-> Undefined,
    presencePenalty |-> Undefined, frequencyPenalty |-> Undefined,
    thinking |-> th, schema |-> "object"] :
     ctx \in Contexts, t \in {Undefined, Num(0)}, th \in {Undefined, Level("high")}}

\* the strategy the client uses for the askJson call with these arguments, when
\* the call gets to its provider call
SameStrategy(params) ==
  LET other == BuildParams(client, "askJson", params)
  IN  other.kind = "return" => Strategy(other.value) = Strategy(request)

\* C20: the structured-output strategy of askJson depends on the provider and
\* the model only: whatever the input, messages, instructions, schema and
\* sampling options of a call, any other askJson call on the same client uses
\* the same strategy.
C20_StrategyIndependentOfContent ==
  (pc = "built" /\ op = "askJson") =>
    /\ Strategy(request) # "none"
    /\ \A params \in OtherCalls : SameStrategy(params)

\* an askJson request on a Groq model without structured outputs, and another
\* call that differs in input, history, instructions, temperature and thinking
C20_Witness ==
  /\ pc = "built"
  /\ op = "askJson"
  /\ client.provider = "groq"
  /\ client.model = "llama-3.3-70b-versatile"
  /\ args.instructions = Str(<<"P">>)
  /\ args.temperature = Num(1)
  /\ Strategy(request) = "prompt injection"
  /\ \E params \in OtherCalls :
       /\ params.instructions = Undefined
       /\ params.temperature = Num(0)
       /\ params.thinking = Level("high")
       /\ BuildParams(client, "askJson", params).kind = "return"
       /\ SameStrategy(params)

----------------------------------------------------------------------------
(* Specification of one call of any kind, with a consumer that may abandon a *)
(* stream and may pull again after the stream is over                        *)

\* how a stream can be over: the generator returned, threw, or was abandoned
Over == {"done", "thrown", "abandoned"}

\* a pull on a generator that is over runs its body again from the start
LatePullRestarts ==
  /\ pc = "streaming"
  /\ status \in Over
  /\ status' = "created"
  /\ result' = result
  /\ UNCHANGED <<client, creates, pc, op, args, request, response, steps, pos, yielded, inner>>

\* a pull on a generator that is over: next() answers {done: true} and no part
\* of the body runs
LatePull ==
  /\ pc = "streaming"
  /\ status \in Over
  /\ status' = status
  /\ result' = Finished
  /\ UNCHANGED <<client, creates, pc, op, args, request, response, steps, pos, yielded, inner>>

\* the consumer abandons the stream (return(), or leaving its for await loop)
\* while the generator is not running: the generator is over, and a generator
\* that never started never runs its body
Abandon ==
  /\ pc = "streaming"
  /\ status \in {"created", "suspended"}
  /\ status' = "abandoned"
  /\ result' = Finished
  /\ UNCHANGED <<client, creates, pc, op, args, request, response, steps, pos, yielded, inner>>

InitCalls == InitStream

NextCalls == NextAsk \/ NextStream \/ LatePull \/ Abandon

SpecCalls == InitCalls /\ [][NextCalls]_vars

----------------------------------------------------------------------------
(* Properties of one call *)

\* the provider call of ask or askJson was rejected
CallRejected == pc = "done" /\ response.kind = "rejected"

\* C22: the engine never retries: an ask or askJson call, and a stream however
\* far it is consumed, invokes the provider's create primitive at most once; a
\* failure of that invocation ends the call at once, with that one invocation.
C22_NoRetry ==
  /\ creates <= 1
  /\ response.kind = "rejected" => pc = "done" /\ creates = 1 /\ result.value.tag = "error"
  /\ ProviderRaised => status = "thrown" /\ creates = 1
  /\ (pc = "streaming" /\ status = "done") => creates = 1

\* an askJson call whose one provider call was rejected with an SDK error
C22_Witness ==
  /\ CallRejected
  /\ op = "askJson"
  /\ response.value = ErrorObj("APIError", <<"429 rate limited">>, {})
  /\ creates = 1
  /\ result = Resolved(ErrorObj("APIError", <<"429 rate limited">>, {}))

\* C23: a transport failure is surfaced verbatim: when the provider call
\* rejects with an Error, ask and askJson return that Error and stream throws
\* it, message unchanged; when it rejects with a value that is no Error, what
\* is surfaced is a new Error whose message is String(value).
C23_FailureVerbatim ==
  /\ [](CallRejected => result = Resolved(SurfacedAs(response.value)))
  /\ [][(status # "thrown" /\ status' = "thrown") =>
          result' = Rejected(SurfacedAs(response'.raised))]_vars

\* a stream whose provider stream raised an SDK error after one fragment
C23_Witness ==
  /\ status = "thrown"
  /\ yielded = <<FragText(1)>>
  /\ response.raised = ErrorObj("APIError", <<"429 rate limited">>, {})
  /\ result = Rejected(ErrorObj("APIError", <<"429 rate limited">>, {}))

\* C25: stream is lazy and single-pass: calling it issues no provider request
\* before the first pull; once the sequence is over (it ended, it threw, or the
\* consumer abandoned it) a later pull reports completion, yields no fragment
\* and issues no provider request.
C25_LazySinglePass ==
  /\ [](status = "created" => creates = 0 /\ request = NoRequest)
  /\ [](status = "abandoned" /\ yielded = <<>> => creates = 0)
  /\ [][(status \in Over) =>
          (status' = status /\ result' = Finished /\ yielded' = yielded
             /\ creates' = creates /\ request' = request)]_vars

\* a stream that threw after a fragment, pulled once more
C25_Witness ==
  /\ status = "thrown"
  /\ yielded = <<FragText(1)>>
  /\ creates = 1
  /\ result = Finished

----------------------------------------------------------------------------
(* Properties of the reasoning markup in a provider's answer *)

\* the provider call of ask or askJson resolved and the call is over
CallResolved == pc = "done" /\ response.kind = "resolved"

\* the raw text the provider answered with: the content of the first
\* candidate, the response text, or the text of the first content block (the
\* answer of Claude's askJson is the input of a tool call, it has no raw text)
RawContent ==
  LET body == response.body
  IN  CASE client.provider \in {"openai", "groq"} -> first(body.choices)
        [] client.provider = "google" -> body.text
        [] client.provider = "mistral" ->
             LET content == firstContentMistral(body)
             IN  IF content.tag = "array" THEN Str(joinChunks(content.arr)) ELSE content
        [] client.provider = "claude" ->
             LET content == firstBlock(body)
             IN  IF op = "ask" /\ content # <<>> /\ content[1].type = "text"
                 THEN Str(content[1].text) ELSE Undefined

\* text starts with a reasoning block: the start marker, then one end marker
LeadingBlock(text) ==
  /\ text # <<>>
  /\ Head(text) = "<think>"
  /\ Cardinality({i \in 1..Len(text) : text[i] = "</think>"}) = 1

\* what follows the reasoning block
AfterBlock(text) == SubSeq(text, lastIndexOf(text, "</think>") + 1, Len(text))

\* C24 (as stated): on every provider a leading reasoning block of the raw
\* content is removed: askJson of a block followed by schema-valid JSON gives
\* the validated object, and the text ask returns is what follows the block.
C24_ReasoningBlockRemoved ==
  (CallResolved /\ RawContent.tag = "string" /\ LeadingBlock(RawContent.s)) =>
    LET rest == AfterBlock(RawContent.s)
    IN  /\ (op = "askJson" /\ trim(rest) = <<"{greeting:Hello,language:English}">>) =>
             result = Resolved(JsonValue("{greeting:Hello,language:English}"))
        /\ op = "ask" => result \in {Resolved(Str(rest)), Resolved(Str(trimStart(rest))),
                                      Resolved(Str(trim(rest)))}

\* text starts with the start marker and holds no end marker
Unterminated(text) ==
  /\ text # <<>>
  /\ Head(text) = "<think>"
  /\ \A i \in 1..Len(text) : text[i] # "</think>"

\* the content the claim lets through: the text itself when it does not start
\* with the start marker, what follows the last end marker (leading white
\* space trimmed) when it does, and nothing of an unterminated block
Unwrapped(text) ==
  IF text = <<>> \/ Head(text) # "<think>" THEN text
  ELSE IF Unterminated(text) THEN <<>>
  ELSE trimStart(AfterBlock(text))

\* C30 (as stated): what Groq's ask and askJson work on is the content without
\* its leading reasoning block: unchanged when it does not start with
\* "<think>", cut after the last "</think>" and trimmed at the start when it
\* does, and holding no text of the block when the block is not terminated.
C30_StripThinking ==
  (CallResolved /\ client.provider = "groq" /\ RawContent.tag = "string") =>
    LET content == Unwrapped(RawContent.s)
    IN  /\ op = "ask" => result = Resolved(Str(content))
        /\ op = "askJson" =>
             result = IF content = <<>> THEN Resolved(NoContentError)
                      ELSE catchAndReturn(parseAndValidate(Schema, content))

----------------------------------------------------------------------------
(* Properties of topK and of Mistral's topP *)

\* C26: topK goes out only where the wire format has a field for it: the
\* request of Claude (top_k) and of Gemini (topK) carries the caller's topK
\* unchanged, the request of OpenAI, Groq and Mistral never carries one, and a
\* call fails exactly when the same call without topK fails.
C26_TopKOnlyWhereAccepted ==
  CallMade =>
    /\ (pc = "built" /\ client.provider \in {"claude", "google"}) =>
         request.topK = args.topK
    /\ (pc = "built" /\ client.provider \in {"openai", "groq", "mistral"}) =>
         request.topK = Undefined
    /\ pc = "failed" <=>
         BuildParams(client, op, [args EXCEPT !.topK = Undefined]).kind = "throw"

\* a Claude askJson call with topK 40: the request carries 40
C26_Witness ==
  /\ pc = "built"
  /\ op = "askJson"
  /\ client.provider = "claude"
  /\ args.topK = Num(40)
  /\ request.topK = Num(40)

----------------------------------------------------------------------------
(* Specification of Claude's askJson, from its request to its result *)

\* the options of the call that reach Claude's request
ToolParameters ==
  {[input |-> InputText, messages |-> NoMessages, instructions |-> Undefined,
    temperature |-> t, topP |-> Undefined, topK |-> k, schema |-> schema] :
     t \in Temperatures, k \in TopKs, schema \in SchemaKinds}

InitTool ==
  /\ InitAsk
  /\ client.provider = "claude"

\* askJson runs to its await: it builds the request with the forced tool and
\* issues messages.create; a schema that cannot be converted ends it in the catch
ToolCallStart ==
  /\ pc = "idle"
  /\ \E params \in ToolParameters :
       LET outcome == paramsClaude(client, "askJson", params)
       IN  /\ op' = "askJson"
           /\ args' = params
           /\ IF outcome.kind = "throw"
              THEN /\ request' = NoRequest
                   /\ steps' = {"toJsonSchema", "toJsonSchema!"}
                   /\ result' = catchAndReturn(outcome)
                   /\ creates' = creates
                   /\ pc' = "done"
              ELSE /\ request' = outcome.value
                   /\ steps' = {"toJsonSchema", "create"}
                   /\ result' = result
                   /\ creates' = invoke(creates)
                   /\ pc' = "awaiting"
  /\ UNCHANGED <<client, response, pos, yielded, status, inner>>

NextTool == ToolCallStart \/ ProviderRejects \/ ProviderResolves

SpecTool == InitTool /\ [][NextTool]_vars

----------------------------------------------------------------------------
(* Properties of Claude's askJson *)

\* the first content block of the response is a tool call
FirstBlockIsToolUse ==
  /\ firstBlock(response.body) # <<>>
  /\ firstBlock(response.body)[1].type = "tool_use"

\* C28: Claude's askJson uses a forced tool call: the request declares exactly
\* one tool, json_response, whose input schema is the caller's schema, and
\* forces that tool; the result is the arguments of the tool call validated
\* against the schema, and a response whose first content block is missing or
\* is no tool call gives an Error.
C28_ForcedToolCall ==
  /\ creates = 1 =>
       /\ request.responseFormat.tools =
            <<[name |-> "json_response", input_schema |-> toJsonSchema(args.schema).value]>>
       /\ request.responseFormat.tool_choice = [type |-> "tool", name |-> "json_response"]
  /\ (CallResolved /\ ~FirstBlockIsToolUse) => result.value.tag = "error"
  /\ (CallResolved /\ FirstBlockIsToolUse) =>
       LET input == firstBlock(response.body)[1].input
       IN  IF SchemaIssues(Schema, input) = {}
           THEN result = Resolved(ObjectValue([k \in DOMAIN Schema |-> input.entries[k]]))
           ELSE result.value.tag = "error" /\ result.value.name = "ValiError"

\* Claude answered with a tool call whose arguments fit the schema, followed
\* by a text block: the result is the validated arguments
C28_Witness ==
  /\ CallResolved
  /\ response.body.content.list =
       <<ToolUse(JsonValue("{greeting:Hello,language:English}")), TextBlock(<<"x">>)>>
  /\ request.responseFormat.tool_choice = [type |-> "tool", name |-> "json_response"]
  /\ result = Resolved(JsonValue("{greeting:Hello,language:English}"))

----------------------------------------------------------------------------
(* Specification of a caller that keeps its objects and repeats its call: the *)
(* messages array and the options object are the caller's, the call works on  *)
(* what it is passed                                                          *)

\* a call that pushes the input onto the caller's messages array
inputPushed(params) ==
  [params EXCEPT !.messages = Messages(updatedMessages(params, params.input))]

\* what a call leaves in the caller's options object and messages array: the
\* call copies both ({...askParameters}, [...(askParameters.messages ?? [])])
\* before it adds the input, and prepareMessages makes its lists with map,
\* filter and spreads; nothing is assigned to a property of the caller's objects
leftWithCaller(params) == params

RepeatClients == {c \in OptionClients : c.thinking = Undefined}

RepeatParameters ==
  {[input |-> InputText, messages |-> m, instructions |-> i,
    temperature |-> Num(1), topP |-> Num(1), topK |-> Num(40), presencePenalty |-> Undefined,
    frequencyPenalty |-> Undefined, thinking |-> Undefined, schema |-> schema] :
     m \in {NoMessages} \cup {Messages(conv) : conv \in Conversations},
     i \in {Undefined, Str(<<"P">>)}, schema \in SchemaKinds}

InitRepeat ==
  /\ InitOptions
  /\ client \in RepeatClients

\* the caller makes the objects it will pass
Prepare ==
  /\ pc = "idle"
  /\ \E o \in Ops, params \in RepeatParameters :
       /\ o # "askJson" => params.schema = "object"
       /\ op' = o
       /\ args' = params
  /\ pc' = "prepared"
  /\ UNCHANGED <<client, creates, request, response, result, steps, pos, yielded, status, inner>>

\* the call, made with the caller's objects, runs up to its provider call or
\* fails before it
CallWithObjects(before, after) ==
  /\ pc = before
  /\ LET outcome == BuildParams(client, op, args)
     IN  IF outcome.kind = "throw"
         THEN /\ request' = NoRequest
              /\ result' = IF op = "stream" THEN catchAndThrow(outcome.value)
                           ELSE catchAndReturn(outcome)
         ELSE /\ request' = outcome.value
              /\ result' = NoResult
  /\ args' = leftWithCaller(args)
  /\ pc' = after
  /\ UNCHANGED <<client, creates, op, response, steps, pos, yielded, status, inner>>

FirstCall == CallWithObjects("prepared", "called")

SecondCall == CallWithObjects("called", "repeated")

NextRepeat == Prepare \/ FirstCall \/ SecondCall

SpecRepeat == InitRepeat /\ [][NextRepeat]_vars

----------------------------------------------------------------------------
(* Properties of the caller's objects *)

----------------------------------------------------------------------------
(* Specification of concurrent calls on one client: every call is an async    *)
(* function or generator that runs up to its await; between the awaits the    *)
(* calls interleave in any order. pc, op, args, request, response, result,    *)
(* pos and yielded are here the ones of each call.                            *)

Calls == 1..MaxCalls

\* the input and the history of call i: distinct per call
InputOf(i) == <<"input" \o ToString(i)>>

ArgsOf(i) ==
  [input |-> InputOf(i),
   messages |-> Messages(<<Msg("assistant", <<"history" \o ToString(i)>>)>>),
   instructions |-> Undefined]

\* the updated parameters and the request kept in one place of the client's
\* closure for all calls
frameOfClient(i) == 1

\* where call i keeps its updated parameters, its request and the promise it
\* awaits: const declarations in the body of ask, askJson and stream, one
\* frame per call
frame(i) == i

\* the text of the last message of a request: what the provider was asked
Heard(req) ==
  IF req.messages = <<>> THEN <<>> ELSE req.messages[Len(req.messages)].content

\* how the provider answers a request that resolves: with the text it was
\* asked, with a JSON document, or with empty content
AnswerKinds == {"echo", "json", "empty"}

RateLimited == ErrorObj("APIError", <<"429 rate limited">>, {})

\* the response of the provider to request req
EchoBody(provider, req, kind) ==
  LET doc  == "{greeting:Hello,language:English}"
      text == CASE kind = "echo"  -> Heard(req)
                [] kind = "json"  -> <<doc>>
                [] kind = "empty" -> <<>>
  IN  CASE provider \in {"openai", "groq", "mistral"} -> [choices |-> <<Str(text)>>]
        [] provider = "google" -> [text |-> Str(text)]
        [] provider = "claude" ->
             [content |-> Messages(<<IF kind = "json" THEN ToolUse(JsonValue(doc))
                                     ELSE TextBlock(text)>>)]

\* the n-th delta of the provider stream opened by request req
EchoDelta(provider, req, n) ==
  LET text == Heard(req) \o FragText(n)
  IN  CASE provider \in {"openai", "groq", "mistral"} -> [content |-> Str(text)]
        [] provider = "google" -> [text |-> Str(text)]
        [] provider = "claude" -> TextDelta(text)

\* ask and askJson after the await: the catch clause for a rejection, the rest
\* of the try block for a response
settle(provider, o, req, kind) ==
  IF kind = "rejected" THEN catchAndReturn(Thrown(RateLimited))
  ELSE catchAndReturn(unify(provider, o, EchoBody(provider, req, kind), Schema))

InitConcurrent ==
  /\ client \in StreamClients
  /\ pc = [i \in Calls |-> "idle"]
  /\ op = [i \in Calls |-> "none"]
  /\ args = [i \in Calls |-> NoArgs]
  /\ request = [i \in Calls |-> NoRequest]
  /\ response = [i \in Calls |-> NoResponse]
  /\ result = [i \in Calls |-> NoResult]
  /\ pos = [i \in Calls |-> 0]
  /\ yielded = [i \in Calls |-> <<>>]
  /\ steps = {}
  /\ status = "none"
  /\ inner = 0
  /\ creates = 0

\* call i is made: ask and askJson run to their await, the request built and
\* issued; stream returns its generator, none of its body run
BeginCall(i) ==
  /\ pc[i] = "idle"
  /\ \E o \in Ops :
       /\ op' = [op EXCEPT ![i] = o]
       /\ IF o = "stream"
          THEN /\ pc' = [pc EXCEPT ![i] = "created"]
               /\ request' = request
          ELSE /\ pc' = [pc EXCEPT ![i] = "awaiting"]
               /\ request' = [request EXCEPT ![frame(i)] = BuildRequest(client, o, ArgsOf(i))]
  /\ args' = [args EXCEPT ![i] = ArgsOf(i)]
  /\ UNCHANGED <<client, creates, response, result, steps, pos, yielded, status, inner>>

\* the first pull on the generator of call i: the request is built and issued
FirstPull(i) ==
  /\ pc[i] = "created"
  /\ pc' = [pc EXCEPT ![i] = "awaiting"]
  /\ request' = [request EXCEPT ![frame(i)] = BuildRequest(client, op[i], args[i])]
  /\ UNCHANGED <<client, creates, op, args, response, result, steps, pos, yielded, status, inner>>

\* the provider call of call i settles and the call runs to its end
Settles(i) ==
  /\ pc[i] = "awaiting"
  /\ op[i] \in AskOps
  /\ \E kind \in AnswerKinds \cup {"rejected"} :
       /\ response' = [response EXCEPT ![i] = [kind |-> kind]]
       /\ result' = [result EXCEPT ![i] = settle(client.provider, op[i], request[frame(i)], kind)]
  /\ pc' = [pc EXCEPT ![i] = "done"]
  /\ UNCHANGED <<client, creates, op, args, request, steps, pos, yielded, status, inner>>

\* the provider stream of call i delivers its next delta, whose fragments the
\* consumer of call i pulls
Delivers(i) ==
  /\ pc[i] = "awaiting"
  /\ op[i] = "stream"
  /\ pos[i] < MaxDeltas
  /\ pos' = [pos EXCEPT ![i] = @ + 1]
  /\ yielded' = [yielded EXCEPT ![i] =
                   @ \o Fragments(client.provider,
                                  EchoDelta(client.provider, request[frame(i)], pos[i] + 1))]
  /\ UNCHANGED <<client, creates, pc, op, args, request, response, result, steps, status, inner>>

\* the provider stream of call i ends or raises
StreamOver(i) ==
  /\ pc[i] = "awaiting"
  /\ op[i] = "stream"
  /\ \E kind \in {"ended", "raised"} :
       /\ response' = [response EXCEPT ![i] = [kind |-> kind]]
       /\ result' = [result EXCEPT ![i] =
                       IF kind = "ended" THEN Finished ELSE catchAndThrow(RateLimited)]
  /\ pc' = [pc EXCEPT ![i] = "done"]
  /\ UNCHANGED <<client, creates, op, args, request, steps, pos, yielded, status, inner>>

NextConcurrent ==
  \E i \in Calls :
    BeginCall(i) \/ FirstPull(i) \/ Settles(i) \/ Delivers(i) \/ StreamOver(i)

SpecConcurrent == InitConcurrent /\ [][NextConcurrent]_vars

----------------------------------------------------------------------------
(* Properties of concurrent calls *)

\* the request call i builds when it is the only call on the client
RequestAlone(i) == BuildRequest(client, op[i], args[i])

RECURSIVE FragmentsAlone(_, _)
\* the fragments call i yields for the first n deltas when it is the only call
FragmentsAlone(i, n) ==
  IF n = 0 THEN <<>>
  ELSE FragmentsAlone(i, n - 1)
         \o Fragments(client.provider, EchoDelta(client.provider, RequestAlone(i), n))

====
